---- MODULE Spec2Model ----
(***************************************************************************)
(* conduit-ts: StreamReader (src/reader.ts), StreamWriter (src/writer.ts)  *)
(* and the three ValueReader strategies, as a state machine.               *)
(*                                                                         *)
(* Numbers.  TLC integers are 32-bit, the program's values reach 2^64, so  *)
(* a JavaScript number or bigint is the record [neg, mag]: mag is the      *)
(* magnitude in base 256, least significant digit first, without leading   *)
(* zero digits (zero is [neg |-> FALSE, mag |-> <<>>]).  The 32-bit        *)
(* intermediate values of the bit operators (the result of <<, |, &, >>)   *)
(* are TLC integers in -2^31 .. 2^31-1 and wrap as ToInt32 does.           *)
(***************************************************************************)
EXTENDS Integers, Sequences, FiniteSets, TLC

\* src/shared.ts: enum Endian { Little, Big }
Little == 0
Big == 1
Endian == {Little, Big}

Byte == 0..255

----------------------------------------------------------------------------
\* Sequences of bytes (Uint8Array)

Reverse(s) == [i \in 1..Len(s) |-> s[Len(s) + 1 - i]]

\* Uint8Array.prototype.slice(begin, end) with relative (negative) indices
RelIndex(i, len) == IF i < 0 THEN (IF len + i < 0 THEN 0 ELSE len + i)
                    ELSE (IF i > len THEN len ELSE i)

slice(buf, begin, end) ==
    LET b == RelIndex(begin, Len(buf))
        e == RelIndex(end, Len(buf))
    IN  IF e <= b THEN <<>> ELSE SubSeq(buf, b + 1, e)

\* the first k bytes of ds, zero-filled when ds is shorter
Pad(ds, k) == [i \in 1..k |-> IF i <= Len(ds) THEN ds[i] ELSE 0]

\* ds without its leading (most significant) zero digits
Norm(ds) ==
    LET nz == {i \in 1..Len(ds) : ds[i] # 0}
    IN  IF nz = {} THEN <<>>
        ELSE SubSeq(ds, 1, CHOOSE i \in nz : \A j \in nz : j <= i)

\* ds + 1 modulo 256^Len(ds), little-endian digits: the carry passes the digits
\* that are 255
Incr(ds) ==
    [i \in 1..Len(ds) |-> IF \A j \in 1..(i - 1) : ds[j] = 255
                          THEN (ds[i] + 1) % 256 ELSE ds[i]]

\* 256^Len(ds) - ds modulo 256^Len(ds): two's-complement negation
Negate(ds) == Incr([i \in 1..Len(ds) |-> 255 - ds[i]])

Zero == [neg |-> FALSE, mag |-> <<>>]
Unsigned(ds) == [neg |-> FALSE, mag |-> Norm(ds)]
Negative(ds) == [neg |-> Norm(ds) # <<>>, mag |-> Norm(ds)]

\* the k low bytes of v modulo 256^k (ToUint8/16/32, BigInt.asUintN), little-endian
TwosBytes(v, k) == IF v.neg THEN Negate(Pad(v.mag, k)) ELSE Pad(v.mag, k)

\* the value of k little-endian bytes read as a two's-complement integer
SignedOf(ds) == IF ds # <<>> /\ ds[Len(ds)] >= 128 THEN Negative(Negate(ds))
                ELSE Unsigned(ds)

----------------------------------------------------------------------------
\* 32-bit integer operators of ECMAScript on TLC integers

MinInt32 == -2147483647 - 1

\* the int32 whose two's-complement bytes, least significant first, are b
OfInt32Bytes(b) ==
    b[1] + 256 * b[2] + 65536 * b[3] + 16777216 * (IF b[4] >= 128 THEN b[4] - 256 ELSE b[4])

ToInt32(v) == OfInt32Bytes(TwosBytes(v, 4))

Int32Bytes(a) == [i \in 1..4 |-> (a \div (256 ^ (i - 1))) % 256]

\* x >>> 0
ToUint32(a) == Unsigned(Int32Bytes(a))

\* an int32 as a number
FromInt32(a) == SignedOf(Int32Bytes(a))

\* bit i of a | b and of a & b, for bytes a and b
OrBit(a, b, i) == IF (a \div (2 ^ i)) % 2 = 1 \/ (b \div (2 ^ i)) % 2 = 1 THEN 2 ^ i ELSE 0

AndBit(a, b, i) == IF (a \div (2 ^ i)) % 2 = 1 /\ (b \div (2 ^ i)) % 2 = 1 THEN 2 ^ i ELSE 0

ByteOr(a, b) ==
    OrBit(a, b, 0) + OrBit(a, b, 1) + OrBit(a, b, 2) + OrBit(a, b, 3)
      + OrBit(a, b, 4) + OrBit(a, b, 5) + OrBit(a, b, 6) + OrBit(a, b, 7)

ByteAnd(a, b) ==
    AndBit(a, b, 0) + AndBit(a, b, 1) + AndBit(a, b, 2) + AndBit(a, b, 3)
      + AndBit(a, b, 4) + AndBit(a, b, 5) + AndBit(a, b, 6) + AndBit(a, b, 7)

\* a | b, byte by byte
Or32(a, b) == OfInt32Bytes([i \in 1..4 |-> ByteOr(Int32Bytes(a)[i], Int32Bytes(b)[i])])

\* a & b, byte by byte
And32(a, b) == OfInt32Bytes([i \in 1..4 |-> ByteAnd(Int32Bytes(a)[i], Int32Bytes(b)[i])])

\* a << k: the shift count is taken modulo 32; the low 32 - k bits of a move up
\* and the result wraps to int32
Shl32(a, k) ==
    LET s    == k % 32
        low  == a % (2 ^ (31 - s))
        sign == (a \div (2 ^ (31 - s))) % 2
    IN  IF s = 0 THEN a
        ELSE IF s = 31 THEN (IF a % 2 = 1 THEN MinInt32 ELSE 0)
        ELSE low * (2 ^ s) + (IF sign = 1 THEN MinInt32 ELSE 0)

\* a >> k, sign-propagating
Sar32(a, k) == a \div (2 ^ (k % 32))

----------------------------------------------------------------------------
\* BigInt operators used by BitOpsValueReader, on non-negative operands

\* x << BigInt(8 * k)
BigShl(x, k) == Unsigned([i \in 1..k |-> 0] \o x.mag)

\* x | y
BigOr(x, y) ==
    LET n == IF Len(x.mag) > Len(y.mag) THEN Len(x.mag) ELSE Len(y.mag)
    IN  Unsigned([i \in 1..n |-> ByteOr(Pad(x.mag, n)[i], Pad(y.mag, n)[i])])

\* x & ((1n << 64n) - 1n)
BigMask64(x) == Unsigned(Pad(x.mag, 8))

\* BigInt(part) for a number that is a non-negative integer
BigInt(x) == x

----------------------------------------------------------------------------
\* src/value-readers/BitOpsValueReader.ts

RECURSIVE FoldLittle(_, _, _)
FoldLittle(buf, i, result) ==
    IF i >= Len(buf) THEN result
    ELSE FoldLittle(buf, i + 1, Or32(result, Shl32(buf[i + 1], i * 8)))

RECURSIVE FoldBig(_, _, _)
FoldBig(buf, i, result) ==
    IF i >= Len(buf) THEN result
    ELSE FoldBig(buf, i + 1, Or32(Shl32(result, 8), buf[i + 1]))

\* a bufferToUnsignedNumber without the final >>> 0 (C9 fails)
bufferToUnsignedNumber_NoShift(buf, endian) ==
    FromInt32(IF endian = Little THEN FoldLittle(buf, 0, 0) ELSE FoldBig(buf, 0, 0))

bufferToUnsignedNumber(buf, endian) ==
    ToUint32(IF endian = Little THEN FoldLittle(buf, 0, 0) ELSE FoldBig(buf, 0, 0))

\* a toSignedNumber that masks and does not extend the sign (C13 fails)
toSignedNumber_NoExtend(u, bits) ==
    IF u.neg THEN [err |-> "RangeError"]
    ELSE FromInt32(And32(ToInt32(u), Shl32(1, bits) - 1))

toSignedNumber(u, bits) ==
    IF u.neg THEN [err |-> "RangeError"]
    ELSE LET mask  == Shl32(1, bits) - 1
             shift == 32 - bits
         IN  FromInt32(Sar32(Shl32(And32(ToInt32(u), mask), shift), shift))

CHUNK_SIZE == 4

\* a Big loop that shifts by 8 bits for every sub-chunk (C14 fails)
RECURSIVE BigFoldBig_Shift8(_, _, _)
BigFoldBig_Shift8(buf, i, result) ==
    IF i >= Len(buf) THEN result
    ELSE LET sl   == slice(buf, i, i + CHUNK_SIZE)
             part == bufferToUnsignedNumber(sl, Big)
         IN  BigFoldBig_Shift8(buf, i + CHUNK_SIZE, BigOr(BigShl(result, 1), BigInt(part)))

RECURSIVE BigFoldBig(_, _, _)
BigFoldBig(buf, i, result) ==
    IF i >= Len(buf) THEN result
    ELSE LET sl   == slice(buf, i, i + CHUNK_SIZE)
             part == bufferToUnsignedNumber(sl, Big)
         IN  BigFoldBig(buf, i + CHUNK_SIZE, BigOr(BigShl(result, Len(sl)), BigInt(part)))

RECURSIVE BigFoldLittle(_, _, _, _)
BigFoldLittle(buf, i, shift, result) ==
    IF i >= Len(buf) THEN result
    ELSE LET sl   == slice(buf, i, i + CHUNK_SIZE)
             part == bufferToUnsignedNumber(sl, Little)
         IN  BigFoldLittle(buf, i + CHUNK_SIZE, shift + Len(sl),
                           BigOr(result, BigShl(BigInt(part), shift)))

bufferToUnsignedBigInt(buf, endian) ==
    IF endian = Big THEN BigFoldBig(buf, 0, Zero) ELSE BigFoldLittle(buf, 0, 0, Zero)

BitOps_readUint8(buf) == Unsigned(<<buf[1]>>)

BitOps_readUint16(buf, endian) == bufferToUnsignedNumber(buf, endian)

BitOps_readUint32(buf, endian) == bufferToUnsignedNumber(buf, endian)

BitOps_readUint64(buf, endian) == bufferToUnsignedBigInt(buf, endian)

BitOps_readInt8(buf) == toSignedNumber(Unsigned(<<buf[1]>>), 8)

BitOps_readInt16(buf, endian) == toSignedNumber(bufferToUnsignedNumber(buf, endian), 16)

BitOps_readInt32(buf, endian) == FromInt32(Or32(ToInt32(BitOps_readUint32(buf, endian)), 0))

BitOps_readInt64(buf, endian) ==
    LET u  == bufferToUnsignedBigInt(buf, endian)
        ui == BigMask64(u)
    IN  IF Len(ui.mag) = 8 /\ ui.mag[8] >= 128
        THEN Negative(Negate(Pad(ui.mag, 8)))
        ELSE ui

----------------------------------------------------------------------------
\* src/value-readers/DataViewValueReader.ts: one 8-byte scratch buffer, every
\* call copies its input to offset 0 and loads the value from offset 0

ScratchLen == 8

\* a loadBuffer that copies its input to the end of the scratch buffer (C30 fails)
loadBuffer_AtEnd(scratch, buf) ==
    [i \in 1..ScratchLen |-> IF i > ScratchLen - Len(buf) THEN buf[i - (ScratchLen - Len(buf))]
                             ELSE scratch[i]]

\* loadBuffer: new Uint8Array(this.scratchBuf).set(buf)
loadBuffer(scratch, buf) == [i \in 1..ScratchLen |-> IF i <= Len(buf) THEN buf[i] ELSE scratch[i]]

\* DataView.prototype.getUint8/16/32, getBigUint64 at byte offset 0
getUint(scratch, nbytes, littleEndian) ==
    LET raw == SubSeq(scratch, 1, nbytes)
    IN  Unsigned(IF littleEndian THEN raw ELSE Reverse(raw))

\* DataView.prototype.getInt8/16/32, getBigInt64 at byte offset 0
getInt(scratch, nbytes, littleEndian) ==
    LET raw == SubSeq(scratch, 1, nbytes)
    IN  SignedOf(IF littleEndian THEN raw ELSE Reverse(raw))

DataView_readUint8(scratch, buf) == getUint(loadBuffer(scratch, buf), 1, FALSE)

DataView_readInt8(scratch, buf) == getInt(loadBuffer(scratch, buf), 1, FALSE)

DataView_readUint16(scratch, buf, endian) == getUint(loadBuffer(scratch, buf), 2, endian = Little)

DataView_readInt16(scratch, buf, endian) == getInt(loadBuffer(scratch, buf), 2, endian = Little)

DataView_readUint32(scratch, buf, endian) == getUint(loadBuffer(scratch, buf), 4, endian = Little)

DataView_readInt32(scratch, buf, endian) == getInt(loadBuffer(scratch, buf), 4, endian = Little)

DataView_readUint64(scratch, buf, endian) == getUint(loadBuffer(scratch, buf), 8, endian = Little)

DataView_readInt64(scratch, buf, endian) == getInt(loadBuffer(scratch, buf), 8, endian = Little)

----------------------------------------------------------------------------
\* src/value-readers/PerformanceValueReader.ts: br for 8 and 16 bits, dv for
\* 32 and 64 bits (scratch is the scratch buffer of its dv)

Perf_readInt8(scratch, buf) == BitOps_readInt8(buf)

Perf_readInt16(scratch, buf, endian) == BitOps_readInt16(buf, endian)

Perf_readInt32(scratch, buf, endian) == DataView_readInt32(scratch, buf, endian)

Perf_readInt64(scratch, buf, endian) == DataView_readInt64(scratch, buf, endian)

Perf_readUint8(scratch, buf) == BitOps_readUint8(buf)

Perf_readUint16(scratch, buf, endian) == BitOps_readUint16(buf, endian)

\* a readUint32 that forwards the buffer without the byte order (C34 fails)
Perf_readUint32_DropsEndian(scratch, buf, endian) == DataView_readUint32(scratch, buf, Big)

Perf_readUint32(scratch, buf, endian) == DataView_readUint32(scratch, buf, endian)

Perf_readUint64(scratch, buf, endian) == DataView_readUint64(scratch, buf, endian)

----------------------------------------------------------------------------
\* The ValueReader interface (src/shared.ts) and its three implementations

ReadFns == {"readUint8", "readInt8", "readUint16", "readInt16",
            "readUint32", "readInt32", "readUint64", "readInt64"}

\* the number of bytes each typed read of StreamReader takes from the stream
WidthOf(fn) == CASE fn \in {"readUint8", "readInt8"}   -> 1
                 [] fn \in {"readUint16", "readInt16"} -> 2
                 [] fn \in {"readUint32", "readInt32"} -> 4
                 [] fn \in {"readUint64", "readInt64"} -> 8

IsSigned(fn) == fn \in {"readInt8", "readInt16", "readInt32", "readInt64"}

Strategies == {"BitOps", "DataView", "Performance"}

BitOpsCall(fn, buf, endian) ==
    CASE fn = "readUint8"  -> BitOps_readUint8(buf)
      [] fn = "readInt8"   -> BitOps_readInt8(buf)
      [] fn = "readUint16" -> BitOps_readUint16(buf, endian)
      [] fn = "readInt16"  -> BitOps_readInt16(buf, endian)
      [] fn = "readUint32" -> BitOps_readUint32(buf, endian)
      [] fn = "readInt32"  -> BitOps_readInt32(buf, endian)
      [] fn = "readUint64" -> BitOps_readUint64(buf, endian)
      [] fn = "readInt64"  -> BitOps_readInt64(buf, endian)

DataViewCall(fn, scratch, buf, endian) ==
    CASE fn = "readUint8"  -> DataView_readUint8(scratch, buf)
      [] fn = "readInt8"   -> DataView_readInt8(scratch, buf)
      [] fn = "readUint16" -> DataView_readUint16(scratch, buf, endian)
      [] fn = "readInt16"  -> DataView_readInt16(scratch, buf, endian)
      [] fn = "readUint32" -> DataView_readUint32(scratch, buf, endian)
      [] fn = "readInt32"  -> DataView_readInt32(scratch, buf, endian)
      [] fn = "readUint64" -> DataView_readUint64(scratch, buf, endian)
      [] fn = "readInt64"  -> DataView_readInt64(scratch, buf, endian)

PerfCall(fn, scratch, buf, endian) ==
    CASE fn = "readUint8"  -> Perf_readUint8(scratch, buf)
      [] fn = "readInt8"   -> Perf_readInt8(scratch, buf)
      [] fn = "readUint16" -> Perf_readUint16(scratch, buf, endian)
      [] fn = "readInt16"  -> Perf_readInt16(scratch, buf, endian)
      [] fn = "readUint32" -> Perf_readUint32(scratch, buf, endian)
      [] fn = "readInt32"  -> Perf_readInt32(scratch, buf, endian)
      [] fn = "readUint64" -> Perf_readUint64(scratch, buf, endian)
      [] fn = "readInt64"  -> Perf_readInt64(scratch, buf, endian)

\* the value a strategy returns for fn(buf, endian)
ValueReaderCall(strategy, fn, scratch, buf, endian) ==
    CASE strategy = "BitOps"      -> BitOpsCall(fn, buf, endian)
      [] strategy = "DataView"    -> DataViewCall(fn, scratch, buf, endian)
      [] strategy = "Performance" -> PerfCall(fn, scratch, buf, endian)

\* the scratch buffer of the strategy's DataViewValueReader after the call
ScratchAfter(strategy, fn, scratch, buf) ==
    CASE strategy = "BitOps"      -> scratch
      [] strategy = "DataView"    -> loadBuffer(scratch, buf)
      [] strategy = "Performance" -> IF WidthOf(fn) >= 4 THEN loadBuffer(scratch, buf)
                                     ELSE scratch

\* src/reader.ts imports ./value-readers/DefaultValueReader; README.md:37 names
\* PerformanceValueReader as the DefaultValueReader
DefaultValueReader == "Performance"

----------------------------------------------------------------------------
\* The endian parameter of the typed reads and writes: "endian: Endian =
\* Endian.Big" takes the default when the argument is omitted (undefined)

\* the argument that was not passed
Undefined == 2

\* a default of Endian.Little (C11 fails)
writeEndian_Little(arg) == IF arg = Undefined THEN Little ELSE arg

\* StreamWriter.writeUint16..writeInt64
writeEndian(arg) == IF arg = Undefined THEN Big ELSE arg

\* StreamReader.readUint16..readInt64
readEndian(arg) == IF arg = Undefined THEN Big ELSE arg

----------------------------------------------------------------------------
\* src/writer.ts: the typed writes encode into the 8-byte buffer of the writer
\* and hand buffer.slice(0, width) to write

WriteFnOf(fn) == CASE fn = "readUint8"  -> "writeUint8"
                   [] fn = "readInt8"   -> "writeInt8"
                   [] fn = "readUint16" -> "writeUint16"
                   [] fn = "readInt16"  -> "writeInt16"
                   [] fn = "readUint32" -> "writeUint32"
                   [] fn = "readInt32"  -> "writeInt32"
                   [] fn = "readUint64" -> "writeUint64"
                   [] fn = "readInt64"  -> "writeInt64"

\* DataView.prototype.setUint8/16/32, setInt8/16/32, setBigUint64, setBigInt64
\* at byte offset 0: the value is reduced modulo 2^(8 * nbytes) and stored in
\* the requested order; Uint8Array.prototype.set([value], 0) is the 1-byte case
\* a store in sign-and-magnitude form (C12 fails)
setValue_SignMagnitude(buf, nbytes, value, littleEndian) ==
    LET m   == Pad(value.mag, nbytes)
        raw == [i \in 1..nbytes |-> IF i = nbytes /\ value.neg /\ m[i] < 128
                                     THEN m[i] + 128 ELSE m[i]]
        ord == IF littleEndian THEN raw ELSE Reverse(raw)
    IN  [i \in 1..Len(buf) |-> IF i <= nbytes THEN ord[i] ELSE buf[i]]

\* a store of the magnitude, the sign dropped (C8 fails)
setValue_Magnitude(buf, nbytes, value, littleEndian) ==
    LET raw == Pad(value.mag, nbytes)
        ord == IF littleEndian THEN raw ELSE Reverse(raw)
    IN  [i \in 1..Len(buf) |-> IF i <= nbytes THEN ord[i] ELSE buf[i]]

setValue(buf, nbytes, value, littleEndian) ==
    LET raw == TwosBytes(value, nbytes)
        ord == IF littleEndian THEN raw ELSE Reverse(raw)
    IN  [i \in 1..Len(buf) |-> IF i <= nbytes THEN ord[i] ELSE buf[i]]

\* an encoding step with the byte orders exchanged (C10 fails)
EncodeInto_Swapped(buf, wfn, value, endian) ==
    CASE wfn \in {"writeUint8", "writeInt8"}   -> setValue(buf, 1, value, FALSE)
      [] wfn \in {"writeUint16", "writeInt16"} -> setValue(buf, 2, value, endian = Big)
      [] wfn \in {"writeUint32", "writeInt32"} -> setValue(buf, 4, value, endian = Big)
      [] wfn \in {"writeUint64", "writeInt64"} -> setValue(buf, 8, value, endian = Big)

\* the writer's buffer after the encoding step of a typed write
EncodeInto(buf, wfn, value, endian) ==
    CASE wfn \in {"writeUint8", "writeInt8"}   -> setValue(buf, 1, value, FALSE)
      [] wfn \in {"writeUint16", "writeInt16"} -> setValue(buf, 2, value, endian = Little)
      [] wfn \in {"writeUint32", "writeInt32"} -> setValue(buf, 4, value, endian = Little)
      [] wfn \in {"writeUint64", "writeInt64"} -> setValue(buf, 8, value, endian = Little)

WriteWidth(wfn) == CASE wfn \in {"writeUint8", "writeInt8"}   -> 1
                     [] wfn \in {"writeUint16", "writeInt16"} -> 2
                     [] wfn \in {"writeUint32", "writeInt32"} -> 4
                     [] wfn \in {"writeUint64", "writeInt64"} -> 8

----------------------------------------------------------------------------
\* Bounds of the model

\* chunks the source holds at construction, and bytes per chunk (0 = empty chunk)
MaxChunks == 3
MaxChunkLen == 3
\* largest length passed to read and readString
MaxReadLen == 3

----------------------------------------------------------------------------
\* State

VARIABLES
    source,        \* ReadableStream: the chunks not yet handed to the reader, then done
    locked,        \* the StreamReader's reader still holds the stream (close() not called)
    buffer,        \* StreamReader.buffer
    bufferOffset,  \* StreamReader.bufferOffset
    bytesRead,     \* StreamReader.bytesRead
    valueReader,   \* StreamReader.valueReader (the constructor's default)
    dvScratch,     \* scratchBuf of the DataViewValueReader inside valueReader
    pc,            \* where the outstanding reader call is suspended, or "idle"
    call,          \* the outstanding call and what the reader looked like when it was made
                   \* (NoCall when idle)
    pulled,        \* the settled result of the reader.read() the call is awaiting
    chunks,        \* readUntilEof: the local array chunks
    last,          \* the outcome of the last completed call (NoCall before the first
                   \* and while a call is outstanding)
    payload,       \* all bytes the source held at construction, in order
    hist,          \* sums over the completed calls
    plain,         \* a StreamReader of src/stream.ts (no trimBuffer) that receives the
                   \* same calls on a stream with the same chunks (on = FALSE: none)
    race,          \* two reads issued without awaiting the first: each call's position
                   \* and outcome, and the queue of their suspended continuations
    wbuffer,       \* StreamWriter.buffer, the 8-byte buffer of the typed writes
    sink,          \* WritableStream: the chunks handed to writer.write, in order
    wpc,           \* where the outstanding writer call is suspended, or "idle"
    wret,          \* <<count>>: what the last completed writer call returned
    wlog,          \* the writer calls made so far: the arguments and, once the call
                   \* has completed, what it returned
    wviews,        \* the positions in sink of chunks that share memory with wbuffer
    cFn,           \* codec: the decode function under study
    cEndian,       \* codec: the byte order under study
    cIn,           \* codec: an input buffer of exactly WidthOf(cFn) bytes
    cVal,          \* codec: the value that cIn represents in Big order
    cScratch,      \* codec: scratchBuf of one instance of each strategy
    cPhase,        \* codec: "new", "decoded", "encoding", "encoded", "done"
    cOut,          \* codec: what each strategy returned for cIn
    cBack,         \* codec: what each strategy returned for the writer's chunk
    conv           \* uint8ArrayFromBufferSource: the argument and, once called, the result

rvars == <<source, locked, buffer, bufferOffset, bytesRead, valueReader, dvScratch,
           pc, call, pulled, chunks, last, payload, hist, plain, race>>

wvars == <<wbuffer, sink, wpc, wret, wlog, wviews>>

cvars == <<cFn, cEndian, cIn, cVal, cScratch, cPhase, cOut, cBack, conv>>

vars == <<source, locked, buffer, bufferOffset, bytesRead, valueReader, dvScratch,
          pc, call, pulled, chunks, last, payload, hist, plain, race,
          wbuffer, sink, wpc, wret, wlog, wviews,
          cFn, cEndian, cIn, cVal, cScratch, cPhase, cOut, cBack, conv>>

RECURSIVE Flatten(_)
Flatten(cs) == IF cs = <<>> THEN <<>> ELSE Head(cs) \o Flatten(Tail(cs))

RECURSIVE SumLen(_)
SumLen(cs) == IF cs = <<>> THEN 0 ELSE Len(Head(cs)) + SumLen(Tail(cs))

\* the sources of the model: up to MaxChunks chunks of 0..MaxChunkLen bytes; the
\* k-th byte of the stream is k, so that every byte of a stream is different
ChunkLens == UNION {[1..k -> 0..MaxChunkLen] : k \in 0..MaxChunks}

RECURSIVE ChunksFrom(_, _)
ChunksFrom(lens, start) ==
    IF lens = <<>> THEN <<>>
    ELSE <<[i \in 1..Head(lens) |-> start + i]>> \o ChunksFrom(Tail(lens), start + Head(lens))

Sources == {ChunksFrom(lens, 0) : lens \in ChunkLens}

ZeroScratch == [i \in 1..ScratchLen |-> 0]

NoCall == [fn |-> "none"]

NoPull == [none |-> TRUE]

\* no reader of src/stream.ts
NoPlain == [on |-> FALSE, source |-> <<>>, buffer |-> <<>>, bufferOffset |-> 0,
            bytesRead |-> 0, status |-> "none", bytes |-> <<>>]

\* a call that was not made
NoTask == [pc |-> "none", n |-> 0, pulled |-> NoPull, status |-> "none", bytes |-> <<>>]

\* no unawaited calls
NoRace == [task |-> [i \in 1..2 |-> NoTask], queue |-> <<>>]

\* a writer on a sink that has received nothing
WriterInit ==
    /\ wbuffer = ZeroScratch
    /\ sink = <<>>
    /\ wpc = "idle"
    /\ wret = <<>>
    /\ wlog = <<>>
    /\ wviews = {}

NoValues == [s \in Strategies |-> Zero]

\* no ArrayBuffer; no result; no call of uint8ArrayFromBufferSource
NoArrayBuffer == [id |-> 0, bytes |-> <<>>]

NoResult == [status |-> "none", message |-> "", buffer |-> NoArrayBuffer,
             byteOffset |-> 0, length |-> 0]

NoConv == [phase |-> "none",
           input |-> [kind |-> "none", buffer |-> NoArrayBuffer, byteOffset |-> 0,
                      byteLength |-> 0],
           result |-> NoResult]

\* no codec experiment
CodecIdle ==
    /\ cFn = "none"
    /\ cEndian = Big
    /\ cIn = <<>>
    /\ cVal = Zero
    /\ cScratch = [s \in Strategies |-> ZeroScratch]
    /\ cPhase = "none"
    /\ cOut = NoValues
    /\ cBack = NoValues
    /\ conv = NoConv

Init ==
    /\ WriterInit
    /\ CodecIdle
    /\ source \in Sources
    /\ payload = Flatten(source)
    /\ locked = TRUE
    /\ buffer = <<>>
    /\ bufferOffset = 0
    /\ bytesRead = 0
    /\ valueReader = DefaultValueReader
    /\ dvScratch = ZeroScratch
    /\ pc = "idle"
    /\ call = NoCall
    /\ pulled = NoPull
    /\ chunks = <<>>
    /\ last = NoCall
    /\ hist = [requested |-> 0, drained |-> 0, eofDone |-> FALSE, negReads |-> 0]
    /\ plain = NoPlain
    /\ race = NoRace

----------------------------------------------------------------------------
\* ReadableStreamDefaultReader.read(): the next chunk, done once the stream is
\* closed and empty, a TypeError once the lock was released

ReaderRead(src, lck) ==
    IF ~lck THEN [err |-> "TypeError"]
    ELSE IF src = <<>> THEN [done |-> TRUE]
    ELSE [done |-> FALSE, value |-> Head(src)]

SourceAfterRead(src, lck) == IF lck /\ src # <<>> THEN Tail(src) ELSE src

\* TextDecoder.decode on bytes below 0x80 (the streams of the model hold no
\* other byte): one code point per byte; U+FFFD for a stray byte
TextDecoderDecode(bytes) == [i \in 1..Len(bytes) |-> IF bytes[i] < 128 THEN bytes[i] ELSE 65533]

\* a first chunk that is the whole window, consumed prefix included (C5 fails)
unreadPart_WholeBuffer(buf, off) == buf

\* buffer.slice(bufferOffset): the bytes of the window not yet handed out
unreadPart(buf, off) == slice(buf, off, Len(buf))

\* what the caller and the reader looked like when a call was made; afterEos: the
\* call before this one failed with EndOfStream; eofBefore: a readUntilEof had
\* completed
Snapshot(fn, n, endian) ==
    [fn |-> fn, n |-> n, endian |-> endian,
     before |-> bytesRead, offBefore |-> bufferOffset, bufBefore |-> buffer,
     unread |-> slice(buffer, bufferOffset, Len(buffer)),
     rest |-> Flatten(source), open |-> locked,
     afterEos |-> last.fn # "none" /\ last.status = "EndOfStream",
     eofBefore |-> hist.eofDone]

\* the outcome of a call: status "ok" with the returned array and the value handed
\* to the caller, or the error the call failed with
Outcome(c, status, bytes, value) ==
    [fn |-> c.fn, n |-> c.n, endian |-> c.endian, before |-> c.before,
     unreadLen |-> Len(c.unread), restLen |-> Len(c.rest), open |-> c.open,
     afterEos |-> c.afterEos, eofBefore |-> c.eofBefore,
     status |-> status, bytes |-> bytes, value |-> value]

----------------------------------------------------------------------------
\* The StreamReader of src/stream.ts: no trimBuffer. Its calls are awaited one at a
\* time; an operator gives the reader after a whole call, with the call's outcome
\* in status and bytes

\* ensureBufferFilledToAtLeast: pull and append until the unread part holds
\* countNum bytes (ok) or the stream is done (the throw)
RECURSIVE Plain_ensureBufferFilledToAtLeast(_, _, _, _)
Plain_ensureBufferFilledToAtLeast(src, buf, off, countNum) ==
    IF Len(buf) - off < countNum
    THEN IF src = <<>> THEN [ok |-> FALSE, source |-> src, buffer |-> buf]
         ELSE Plain_ensureBufferFilledToAtLeast(Tail(src), buf \o Head(src), off, countNum)
    ELSE [ok |-> TRUE, source |-> src, buffer |-> buf]

\* read(len): the slice, bufferOffset and bytesRead advanced by len
Plain_read(r, n) ==
    LET e == Plain_ensureBufferFilledToAtLeast(r.source, r.buffer, r.bufferOffset, n)
    IN  IF e.ok
        THEN [r EXCEPT !.source = e.source, !.buffer = e.buffer,
                       !.bufferOffset = @ + n, !.bytesRead = @ + n,
                       !.status = "ok",
                       !.bytes = slice(e.buffer, r.bufferOffset, r.bufferOffset + n)]
        ELSE [r EXCEPT !.source = e.source, !.buffer = e.buffer,
                       !.status = "EndOfStream", !.bytes = <<>>]

\* readUntilEof: the unread part and every chunk still in the stream
Plain_readUntilEof(r) ==
    LET cs == <<slice(r.buffer, r.bufferOffset, Len(r.buffer))>> \o r.source
    IN  [r EXCEPT !.source = <<>>, !.bufferOffset = Len(r.buffer),
                  !.bytesRead = @ + SumLen(cs), !.status = "ok", !.bytes = Flatten(cs)]

----------------------------------------------------------------------------
\* StreamReader.read and the reads built on it (src/reader.ts)

\* a trimBuffer that also compacts with the offset exactly at half (C24 fails)
trimBuffer_AtHalf(buf, off) ==
    IF off >= Len(buf) \div 2 THEN <<slice(buf, off, Len(buf)), 0>> ELSE <<buf, off>>

\* a trimBuffer that never drops the consumed prefix (C18 fails)
trimBuffer_Never(buf, off) == <<buf, off>>

\* a trimBuffer that rewinds the offset and keeps the consumed prefix (C17 fails)
trimBuffer_ResetOnly(buf, off) ==
    IF off > Len(buf) \div 2 THEN <<buf, 0>> ELSE <<buf, off>>

\* a trimBuffer that drops the consumed prefix and keeps the old offset (C1 fails)
trimBuffer_KeepOffset(buf, off) ==
    IF off > Len(buf) \div 2 THEN <<slice(buf, off, Len(buf)), off>> ELSE <<buf, off>>

\* trimBuffer: the pair <<buffer, bufferOffset>> after the call
trimBuffer(buf, off) ==
    IF off > Len(buf) \div 2 THEN <<slice(buf, off, Len(buf)), 0>> ELSE <<buf, off>>

\* a loop condition that forgets the consumed prefix (C3 fails)
needMore_IgnoresOffset(buf, off, countNum) == Len(buf) < countNum

\* a loop condition that also asks for a chunk when the unread part is exactly
\* as long as the request (C20 fails)
needMore_Inclusive(buf, off, countNum) == Len(buf) - off <= countNum

\* the loop condition of ensureBufferFilledToAtLeast
needMore(buf, off, countNum) == Len(buf) - off < countNum

\* an append that puts the new chunk in front of the window (C26 fails)
appendChunk_InFront(buf, value) == value \o buf

\* an append that keeps only the new chunk (C4 fails)
appendChunk_Replace(buf, value) == value

\* the new buffer of ensureBufferFilledToAtLeast: the old one, then the chunk
appendChunk(buf, value) == buf \o value

\* a read that sets bytesRead to the cursor of the window (C2 fails)
readStep_CountsCursor(buf, off, count, n) ==
    LET trimmed == trimBuffer(buf, off + n)
    IN  [value |-> slice(buf, off, off + n),
         buffer |-> trimmed[1], bufferOffset |-> trimmed[2],
         bytesRead |-> off + n]

\* read after the await: the returned slice, then bufferOffset and bytesRead
\* advanced by the requested length, then trimBuffer
readStep(buf, off, count, n) ==
    LET trimmed == trimBuffer(buf, off + n)
    IN  [value |-> slice(buf, off, off + n),
         buffer |-> trimmed[1], bufferOffset |-> trimmed[2],
         bytesRead |-> count + n]

\* the value a call hands to its caller for the bytes read(n) returned
ResultOf(c, bytes) ==
    CASE c.fn = "read"       -> bytes
      [] c.fn = "readString" -> TextDecoderDecode(bytes)
      [] OTHER               -> ValueReaderCall(valueReader, c.fn, dvScratch, bytes,
                                                readEndian(c.endian))

\* read(len), readString(len), readUintW(endian), readIntW(endian) up to the
\* first await: ensureBufferFilledToAtLeast tests its loop condition and either
\* returns or asks the source for a chunk
ReadCall(fn, n, endian) ==
    /\ pc = "idle"
    /\ call' = Snapshot(fn, n, endian)
    /\ IF needMore(buffer, bufferOffset, n)
       THEN /\ pulled' = ReaderRead(source, locked)
            /\ source' = SourceAfterRead(source, locked)
            /\ pc' = "ensure"
       ELSE /\ pc' = "slice"
            /\ UNCHANGED <<pulled, source>>
    /\ last' = NoCall
    /\ UNCHANGED <<locked, buffer, bufferOffset, bytesRead, valueReader, dvScratch,
                   chunks, payload, hist>>
    /\ plain' = IF plain.on THEN Plain_read(plain, n) ELSE plain
    /\ UNCHANGED <<wvars, cvars, race>>

\* ensureBufferFilledToAtLeast resumes with a chunk: append it, test again
EnsureAppend ==
    /\ pc = "ensure"
    /\ "value" \in DOMAIN pulled
    /\ LET newBuffer == appendChunk(buffer, pulled.value)
       IN  /\ buffer' = newBuffer
           /\ IF needMore(newBuffer, bufferOffset, call.n)
              THEN /\ pulled' = ReaderRead(source, locked)
                   /\ source' = SourceAfterRead(source, locked)
                   /\ pc' = "ensure"
              ELSE /\ pulled' = NoPull
                   /\ pc' = "slice"
                   /\ UNCHANGED source
    /\ UNCHANGED <<locked, bufferOffset, bytesRead, valueReader, dvScratch,
                   call, chunks, last, payload, hist>>
    /\ UNCHANGED <<wvars, cvars, plain, race>>

\* a loop that asks the source again when it is told done (C28 fails)
EnsureThrow_AsksAgain ==
    /\ pc = "ensure"
    /\ "done" \in DOMAIN pulled /\ pulled.done
    /\ pulled' = ReaderRead(source, locked)
    /\ source' = SourceAfterRead(source, locked)
    /\ UNCHANGED <<locked, buffer, bufferOffset, bytesRead, valueReader, dvScratch,
                   pc, call, chunks, last, payload, hist>>
    /\ UNCHANGED <<wvars, cvars, plain, race>>

\* ensureBufferFilledToAtLeast resumes with done: throw, and read rejects
EnsureThrow ==
    /\ pc = "ensure"
    /\ "done" \in DOMAIN pulled /\ pulled.done
    /\ last' = Outcome(call, "EndOfStream", <<>>, "none")
    /\ pc' = "idle"
    /\ call' = NoCall
    /\ pulled' = NoPull
    /\ UNCHANGED <<source, locked, buffer, bufferOffset, bytesRead, valueReader,
                   dvScratch, chunks, payload, hist>>
    /\ UNCHANGED <<wvars, cvars, plain, race>>

\* a rejection that also gives up the window (C29 fails)
PullRejected_DropsWindow ==
    /\ pc \in {"ensure", "drain"}
    /\ "err" \in DOMAIN pulled
    /\ last' = Outcome(call, pulled.err, <<>>, "none")
    /\ pc' = "idle"
    /\ call' = NoCall
    /\ pulled' = NoPull
    /\ chunks' = <<>>
    /\ buffer' = <<>>
    /\ bufferOffset' = 0
    /\ UNCHANGED <<source, locked, bytesRead, valueReader, dvScratch, payload, hist>>
    /\ UNCHANGED <<wvars, cvars, plain, race>>

\* reader.read() rejected (released lock): the rejection passes through the call
PullRejected ==
    /\ pc \in {"ensure", "drain"}
    /\ "err" \in DOMAIN pulled
    /\ last' = Outcome(call, pulled.err, <<>>, "none")
    /\ pc' = "idle"
    /\ call' = NoCall
    /\ pulled' = NoPull
    /\ chunks' = <<>>
    /\ UNCHANGED <<source, locked, buffer, bufferOffset, bytesRead, valueReader,
                   dvScratch, payload, hist>>
    /\ UNCHANGED <<wvars, cvars, plain, race>>

\* read resumes after ensureBufferFilledToAtLeast: slice, advance, trimBuffer,
\* and (typed reads) decode
ReadSlice ==
    /\ pc = "slice"
    /\ LET r == readStep(buffer, bufferOffset, bytesRead, call.n)
       IN  /\ buffer' = r.buffer
           /\ bufferOffset' = r.bufferOffset
           /\ bytesRead' = r.bytesRead
           /\ last' = Outcome(call, "ok", r.value, ResultOf(call, r.value))
           /\ dvScratch' = IF call.fn \in ReadFns
                           THEN ScratchAfter(valueReader, call.fn, dvScratch, r.value)
                           ELSE dvScratch
           /\ hist' = [hist EXCEPT !.requested = @ + call.n,
                                    !.negReads = IF call.n < 0 THEN @ + 1 ELSE @]
    /\ pc' = "idle"
    /\ call' = NoCall
    /\ UNCHANGED <<source, locked, valueReader, pulled, chunks, payload>>
    /\ UNCHANGED <<wvars, cvars, plain, race>>

----------------------------------------------------------------------------
\* StreamReader.readUntilEof

\* a readUntilEof that does not count the bytes it returned (C31 fails)
eofStep_KeepsCount(cs, buf, count) ==
    [value |-> Flatten(cs), bytesRead |-> count, bufferOffset |-> Len(buf)]

\* a readUntilEof that leaves the cursor where it was (C27 fails)
eofStep_KeepsCursor(cs, buf, count) ==
    [value |-> Flatten(cs), bytesRead |-> count + SumLen(cs),
     bufferOffset |-> Len(buf) - Len(Head(cs))]

\* a readUntilEof that advances the cursor by the bytes it returned (C25 fails)
eofStep_AdvancesByResult(cs, buf, count) ==
    [value |-> Flatten(cs), bytesRead |-> count + SumLen(cs),
     bufferOffset |-> Len(buf) + SumLen(cs)]

\* a readUntilEof that rewinds the cursor instead of moving it to the end (C6 fails)
eofStep_Rewinds(cs, buf, count) ==
    [value |-> Flatten(cs), bytesRead |-> count + SumLen(cs), bufferOffset |-> 0]

\* readUntilEof after its loop: the chunks concatenated, bytesRead advanced by
\* their total length, bufferOffset moved to the end of the buffer
eofStep(cs, buf, count) ==
    [value |-> Flatten(cs), bytesRead |-> count + SumLen(cs), bufferOffset |-> Len(buf)]

\* up to the first await: chunks = [buffer.slice(bufferOffset)], ask for a chunk
EofCall ==
    /\ pc = "idle"
    /\ call' = Snapshot("readUntilEof", 0, Big)
    /\ chunks' = <<unreadPart(buffer, bufferOffset)>>
    /\ pulled' = ReaderRead(source, locked)
    /\ source' = SourceAfterRead(source, locked)
    /\ pc' = "drain"
    /\ last' = NoCall
    /\ UNCHANGED <<locked, buffer, bufferOffset, bytesRead, valueReader, dvScratch,
                   payload, hist>>
    /\ plain' = IF plain.on THEN Plain_readUntilEof(plain) ELSE plain
    /\ UNCHANGED <<wvars, cvars, race>>

\* resumes with a chunk: push it, ask for the next
EofPush ==
    /\ pc = "drain"
    /\ "value" \in DOMAIN pulled
    /\ chunks' = Append(chunks, pulled.value)
    /\ pulled' = ReaderRead(source, locked)
    /\ source' = SourceAfterRead(source, locked)
    /\ UNCHANGED <<locked, buffer, bufferOffset, bytesRead, valueReader, dvScratch,
                   pc, call, last, payload, hist>>
    /\ UNCHANGED <<wvars, cvars, plain, race>>

\* resumes with done: concatenate, count, move the offset to the end
EofDone ==
    /\ pc = "drain"
    /\ "done" \in DOMAIN pulled /\ pulled.done
    /\ LET r == eofStep(chunks, buffer, bytesRead)
       IN  /\ bytesRead' = r.bytesRead
           /\ bufferOffset' = r.bufferOffset
           /\ last' = Outcome(call, "ok", r.value, r.value)
           /\ hist' = [hist EXCEPT !.drained = @ + Len(r.value), !.eofDone = TRUE]
    /\ pc' = "idle"
    /\ call' = NoCall
    /\ pulled' = NoPull
    /\ chunks' = <<>>
    /\ UNCHANGED <<source, locked, buffer, valueReader, dvScratch, payload>>
    /\ UNCHANGED <<wvars, cvars, plain, race>>

\* a close that puts the cursor back to the start of the window (C33 fails)
Close_RewindsCursor ==
    /\ pc = "idle"
    /\ locked
    /\ locked' = FALSE
    /\ bufferOffset' = 0
    /\ UNCHANGED <<source, buffer, bytesRead, valueReader, dvScratch,
                   pc, call, pulled, chunks, last, payload, hist>>
    /\ UNCHANGED <<wvars, cvars, plain, race>>

\* a close that also gives up the window (C21 fails)
Close_DropsWindow ==
    /\ pc = "idle"
    /\ locked
    /\ locked' = FALSE
    /\ buffer' = <<>>
    /\ bufferOffset' = 0
    /\ UNCHANGED <<source, bytesRead, valueReader, dvScratch,
                   pc, call, pulled, chunks, last, payload, hist>>
    /\ UNCHANGED <<wvars, cvars, plain, race>>

\* StreamReader.close: reader.releaseLock()
Close ==
    /\ pc = "idle"
    /\ locked
    /\ locked' = FALSE
    /\ UNCHANGED <<source, buffer, bufferOffset, bytesRead, valueReader, dvScratch,
                   pc, call, pulled, chunks, last, payload, hist>>
    /\ UNCHANGED <<wvars, cvars, plain, race>>

----------------------------------------------------------------------------
\* The calls a client makes, one at a time, each awaited

EndianOf(fn) == IF WidthOf(fn) = 1 THEN {Big} ELSE Endian

Read == \E n \in 0..MaxReadLen : ReadCall("read", n, Big)

ReadString == \E n \in 0..MaxReadLen : ReadCall("readString", n, Big)

ReadTyped == \E fn \in ReadFns : \E e \in EndianOf(fn) : ReadCall(fn, WidthOf(fn), e)

\* a client that calls read, readUntilEof and close
Next ==
    \/ Read
    \/ EnsureAppend
    \/ EnsureThrow
    \/ PullRejected
    \/ ReadSlice
    \/ EofCall
    \/ EofPush
    \/ EofDone
    \/ Close

Spec == Init /\ [][Next]_vars

\* a client that calls read, readString, the typed reads and readUntilEof
NextTyped ==
    \/ Read
    \/ ReadString
    \/ ReadTyped
    \/ EnsureAppend
    \/ EnsureThrow
    \/ ReadSlice
    \/ EofCall
    \/ EofPush
    \/ EofDone

SpecTyped == Init /\ [][NextTyped]_vars

----------------------------------------------------------------------------
\* The same reader when the client also passes negative lengths to read
\* (len: number | bigint is not checked by read)

\* negative reads a run may make
MaxNegReads == 2

ReadAnyLen ==
    \E n \in (0 - MaxReadLen)..MaxReadLen :
        /\ n < 0 => hist.negReads < MaxNegReads
        /\ ReadCall("read", n, Big)

NextNeg ==
    \/ ReadAnyLen
    \/ EnsureAppend
    \/ EnsureThrow
    \/ PullRejected
    \/ ReadSlice
    \/ EofCall
    \/ EofPush
    \/ EofDone
    \/ Close

SpecNeg == Init /\ [][NextNeg]_vars

----------------------------------------------------------------------------
\* StreamWriter (src/writer.ts)

\* TextEncoder.encode of a string given as its code points (below 2048): UTF-8
RECURSIVE TextEncoderEncode(_)
TextEncoderEncode(str) ==
    IF str = <<>> THEN <<>>
    ELSE LET cp == Head(str)
         IN  (IF cp < 128 THEN <<cp>>
              ELSE <<192 + (cp \div 64), 128 + (cp % 64)>>) \o TextEncoderEncode(Tail(str))

\* the typed writes pass a view on this.buffer instead of a copy (C16 fails)
handOver_Subarray(buf, w) == [bytes |-> slice(buf, 0, w), view |-> TRUE]

\* this.buffer.slice(0, w): a new array holding a copy of the first w bytes
handOver(buf, w) == [bytes |-> slice(buf, 0, w), view |-> FALSE]

\* what the sink's chunks hold once this.buffer holds buf: a chunk that shares
\* memory with this.buffer shows the buffer's bytes, every other chunk its own
sinkSeenWith(buf) ==
    [i \in 1..Len(sink) |-> IF i \in wviews THEN slice(buf, 0, Len(sink[i])) ELSE sink[i]]

NoValue == Zero

\* an entry of wlog
Logged(fn, bytes, str, value, endian) ==
    [fn |-> fn, bytes |-> bytes, str |-> str, value |-> value, endian |-> endian,
     ret |-> <<>>, err |-> "none"]

\* byteLength of the buffer that the call of a wlog entry passes to write
byteLengthOf(e) ==
    CASE e.fn = "write"       -> Len(e.bytes)
      [] e.fn = "writeString" -> Len(TextEncoderEncode(e.str))
      [] OTHER                -> WriteWidth(e.fn)

\* a sink that takes each new chunk ahead of the chunks it holds (C32 fails)
writeChunk_InFront(snk, chunk) == <<chunk>> \o snk

\* an empty buffer is not handed to the sink (C15 fails)
writeChunk_SkipEmpty(snk, chunk) == IF chunk = <<>> THEN snk ELSE Append(snk, chunk)

\* this.writer.write(buffer): the sink receives the buffer as one chunk
writeChunk(snk, chunk) == Append(snk, chunk)

\* write(buffer) up to its await
Write(bytes) ==
    /\ wpc = "idle"
    /\ sink' = writeChunk(sink, bytes)
    /\ wlog' = Append(wlog, Logged("write", bytes, <<>>, NoValue, Big))
    /\ wpc' = "write"
    /\ wret' = <<>>
    /\ UNCHANGED <<wbuffer, wviews>>

\* writeString(value) up to the await in write
WriteString(str) ==
    /\ wpc = "idle"
    /\ sink' = writeChunk(sink, TextEncoderEncode(str))
    /\ wlog' = Append(wlog, Logged("writeString", <<>>, str, NoValue, Big))
    /\ wpc' = "write"
    /\ wret' = <<>>
    /\ UNCHANGED <<wbuffer, wviews>>

\* writeUintW(value, endian) / writeIntW(value, endian) up to the await in write:
\* encode into this.buffer, slice the first W bytes, hand the slice to the sink
WriteTyped(wfn, value, endian) ==
    /\ wpc = "idle"
    /\ LET encoded == EncodeInto(wbuffer, wfn, value, writeEndian(endian))
           chunk == handOver(encoded, WriteWidth(wfn))
       IN  /\ wbuffer' = encoded
           /\ sink' = writeChunk(sinkSeenWith(encoded), chunk.bytes)
           /\ wviews' = IF chunk.view THEN wviews \cup {Len(sink) + 1} ELSE wviews
    /\ wlog' = Append(wlog, Logged(wfn, <<>>, <<>>, value, endian))
    /\ wpc' = "write"
    /\ wret' = <<>>

\* write resumes after writer.write(buffer): return buffer.byteLength
WriteReturn ==
    /\ wpc = "write"
    /\ wret' = <<byteLengthOf(wlog[Len(wlog)])>>
    /\ wlog' = [wlog EXCEPT ![Len(wlog)].ret = <<byteLengthOf(wlog[Len(wlog)])>>]
    /\ wpc' = "idle"
    /\ UNCHANGED <<wbuffer, sink, wviews>>

\* a rejected write that still reports the chunk's byte count (C23 fails)
rejected_WithCount(e, err) == [e EXCEPT !.err = err, !.ret = <<byteLengthOf(e)>>]

\* the wlog entry of a call whose await of writer.write(buffer) threw err: the
\* call rejects with err, the return statement is not reached
rejected(e, err) == [e EXCEPT !.err = err]

\* the sink rejected a chunk before: the stream is errored
Errored == \E i \in 1..Len(wlog) : wlog[i].err # "none"

\* writer.write(buffer) rejects: the sink did not take the chunk, or the stream
\* was errored already; write rejects with the same error
WriteReject ==
    /\ wpc = "write"
    /\ sink' = SubSeq(sink, 1, Len(sink) - 1)
    /\ wlog' = [wlog EXCEPT ![Len(wlog)] = rejected(@, "SinkError")]
    /\ wret' = <<>>
    /\ wpc' = "idle"
    /\ UNCHANGED <<wbuffer, wviews>>

----------------------------------------------------------------------------
\* The decode functions of the three strategies and the typed writes, applied to
\* inputs drawn from bounded sets

\* 0x00 0x01 0x12 0x34 0x7F 0x80 0x81 0xFE 0xFF
SampleBytes == {0, 1, 18, 52, 127, 128, 129, 254, 255}
EdgeBytes == {0, 1, 127, 128, 255}

\* 4-byte words: zero, one in both orders, the largest and the smallest int32 in
\* both orders, all ones, and two words of four different bytes
Words == { <<0, 0, 0, 0>>, <<0, 0, 0, 1>>, <<1, 0, 0, 0>>,
           <<127, 255, 255, 255>>, <<255, 255, 255, 127>>,
           <<128, 0, 0, 0>>, <<0, 0, 0, 128>>, <<255, 255, 255, 255>>,
           <<18, 52, 86, 120>>, <<137, 171, 205, 239>> }

Inputs(w) == CASE w = 1 -> [1..1 -> Byte]
               [] w = 2 -> [1..2 -> SampleBytes]
               [] w = 4 -> [1..4 -> EdgeBytes] \cup Words
               [] w = 8 -> {hi \o lo : hi \in Words, lo \in Words}

\* the integer whose W-byte representation, most significant byte first, is bytes:
\* unsigned, or two's complement for the signed functions
ValueOfBytes(fn, bytes) ==
    IF IsSigned(fn) THEN SignedOf(Reverse(bytes)) ELSE Unsigned(Reverse(bytes))

\* scratch buffers that earlier calls may have left behind
DirtyScratch == {ZeroScratch, [i \in 1..ScratchLen |-> 165]}

ReaderIdle ==
    /\ source = <<>>
    /\ payload = <<>>
    /\ locked = TRUE
    /\ buffer = <<>>
    /\ bufferOffset = 0
    /\ bytesRead = 0
    /\ valueReader = DefaultValueReader
    /\ dvScratch = ZeroScratch
    /\ pc = "idle"
    /\ call = NoCall
    /\ pulled = NoPull
    /\ chunks = <<>>
    /\ last = NoCall
    /\ hist = [requested |-> 0, drained |-> 0, eofDone |-> FALSE, negReads |-> 0]
    /\ plain = NoPlain
    /\ race = NoRace

InitCodec ==
    /\ ReaderIdle
    /\ WriterInit
    /\ cFn \in ReadFns
    /\ cEndian \in EndianOf(cFn)
    /\ cIn \in Inputs(WidthOf(cFn))
    /\ cVal = ValueOfBytes(cFn, cIn)
    /\ \E d \in DirtyScratch : cScratch = [s \in Strategies |-> d]
    /\ cPhase = "new"
    /\ cOut = NoValues
    /\ cBack = NoValues
    /\ conv = NoConv

\* cFn(cIn, cEndian) on an instance of each strategy
Decode ==
    /\ cPhase = "new"
    /\ cPhase' = "decoded"
    /\ cOut' = [s \in Strategies |-> ValueReaderCall(s, cFn, cScratch[s], cIn, cEndian)]
    /\ cScratch' = [s \in Strategies |-> ScratchAfter(s, cFn, cScratch[s], cIn)]
    /\ UNCHANGED <<conv, cFn, cEndian, cIn, cVal, cBack>>
    /\ UNCHANGED <<rvars, wvars>>

\* the typed write that matches cFn, of the value cVal
Encode ==
    /\ cPhase = "decoded"
    /\ cPhase' = "encoding"
    /\ WriteTyped(WriteFnOf(cFn), cVal, cEndian)
    /\ UNCHANGED <<conv, cFn, cEndian, cIn, cVal, cScratch, cOut, cBack>>
    /\ UNCHANGED rvars

Written ==
    /\ cPhase = "encoding"
    /\ cPhase' = "encoded"
    /\ WriteReturn
    /\ UNCHANGED <<conv, cFn, cEndian, cIn, cVal, cScratch, cOut, cBack>>
    /\ UNCHANGED rvars

\* cFn(chunk, cEndian) on the chunk the sink received
DecodeBack ==
    /\ cPhase = "encoded"
    /\ cPhase' = "done"
    /\ cBack' = [s \in Strategies |-> ValueReaderCall(s, cFn, cScratch[s], sink[1], cEndian)]
    /\ cScratch' = [s \in Strategies |-> ScratchAfter(s, cFn, cScratch[s], sink[1])]
    /\ UNCHANGED <<conv, cFn, cEndian, cIn, cVal, cOut>>
    /\ UNCHANGED <<rvars, wvars>>

NextCodec ==
    \/ Decode
    \/ Encode
    \/ Written
    \/ DecodeBack

SpecCodec == InitCodec /\ [][NextCodec]_vars

----------------------------------------------------------------------------
\* Properties of read and readUntilEof

\* a read(n) of the client has completed (typed reads and readString excluded)
ReadCompleted == pc = "idle" /\ last.fn = "read"

\* a read-family call has completed
ReadFamilyCompleted == pc = "idle" /\ last.fn \notin {"none", "readUntilEof"}

\* C1: as long as only read(n) has been called on an open reader, the k-th
\* successful read returns the n bytes of the payload that follow the bytes the
\* earlier reads returned, whatever the chunk boundaries of the source are; a
\* read fails only when the requests so far ask for more than the payload holds.
C1_ReadIsChunkingIndependent ==
    (ReadCompleted /\ ~hist.eofDone /\ last.open) =>
        /\ last.status \in {"ok", "EndOfStream"}
        /\ last.status = "ok" =>
              /\ hist.requested <= Len(payload)
              /\ last.bytes = SubSeq(payload, hist.requested - last.n + 1, hist.requested)
        /\ last.status = "EndOfStream" => hist.requested + last.n > Len(payload)

\* a read of 3 bytes that ends at the 5th byte of the stream has succeeded, from a
\* source of at least two chunks
C1_Witness ==
    /\ ReadCompleted /\ ~hist.eofDone /\ last.open
    /\ last.status = "ok" /\ last.n = 3 /\ hist.requested = 5
    /\ last.bytes = <<3, 4, 5>>

\* C2: bytesRead is 0 before the first read and, after any sequence of read,
\* readString and typed reads, the sum of the lengths the successful calls
\* asked for; a successful typed read adds its width (1, 2, 4 or 8).
C2_BytesReadIsSumOfRequests ==
    /\ (pc = "idle" /\ last.fn = "none") => bytesRead = 0
    /\ (pc = "idle" /\ ~hist.eofDone) => bytesRead = hist.requested
    /\ (ReadFamilyCompleted /\ last.status = "ok") => bytesRead = last.before + last.n
    /\ (ReadFamilyCompleted /\ last.status = "ok" /\ last.fn \in ReadFns) =>
           /\ last.n = WidthOf(last.fn)
           /\ bytesRead - last.before \in {1, 2, 4, 8}

\* a readUint32 has succeeded after 3 bytes had been read
C2_Witness ==
    /\ ReadFamilyCompleted /\ ~hist.eofDone
    /\ last.fn = "readUint32" /\ last.status = "ok"
    /\ last.before = 3 /\ bytesRead = 7

\* C3: a successful read, readString or typed read got exactly the n bytes it
\* asked for; when n is more than the unread bytes of the window and of the
\* source together, the call fails with 'Unexpected end of stream'.
C3_NeverShort ==
    ReadFamilyCompleted =>
        /\ last.status = "ok" => Len(last.bytes) = last.n
        /\ last.n > last.unreadLen + last.restLen => last.status = "EndOfStream"
        /\ last.status = "EndOfStream" => last.n > last.unreadLen + last.restLen

\* a readUint64 has failed with EndOfStream although bytes were left to read
C3_Witness ==
    /\ ReadFamilyCompleted
    /\ last.fn = "readUint64" /\ last.status = "EndOfStream"
    /\ last.unreadLen + last.restLen = 5

\* the read that follows a failed one
ReadAfterFailure ==
    (ReadCompleted /\ last.afterEos /\ last.n <= last.unreadLen + last.restLen) =>
        /\ last.status = "ok"
        /\ last.bytes = SubSeq(payload, last.before + 1, last.before + last.n)

\* C4: a read that fails with 'Unexpected end of stream' leaves bytesRead and
\* bufferOffset as they were and the buffer as it was with the chunks the call
\* pulled appended; the next read(m) with m at most the bytes left succeeds and
\* returns the next m bytes of the stream.
C4_FailedReadKeepsState ==
    [][ /\ (pc = "ensure" /\ pc' = "idle" /\ last'.status = "EndOfStream") =>
              /\ bytesRead' = call.before
              /\ bufferOffset' = call.offBefore
              /\ buffer' = call.bufBefore \o call.rest
              /\ slice(buffer', bufferOffset', Len(buffer')) = call.unread \o call.rest
        /\ ReadAfterFailure' ]_vars

\* read(2) has returned bytes 2 and 3 right after a read failed
C4_Witness ==
    /\ ReadCompleted /\ last.afterEos /\ last.status = "ok"
    /\ last.bytes = <<2, 3>> /\ last.restLen = 0

\* C5: readUntilEof on an open reader returns the unread bytes of the window
\* followed by every chunk the source still held, in order (the empty array when
\* there are none), and adds the length of what it returns to bytesRead.
C5_ReadUntilEofReturnsTheRest ==
    [][ (pc = "drain" /\ pc' = "idle") =>
            /\ call.open => last'.status = "ok"
            /\ last'.status = "ok" =>
                  /\ last'.bytes = call.unread \o call.rest
                  /\ bytesRead' = bytesRead + Len(last'.bytes) ]_vars

\* readUntilEof has returned one unread byte of the window and three bytes of
\* the source
C5_Witness ==
    /\ pc = "idle" /\ last.fn = "readUntilEof" /\ last.status = "ok"
    /\ last.unreadLen = 1 /\ last.restLen = 3 /\ Len(last.bytes) = 4

\* C6: a readUntilEof that follows a completed readUntilEof returns the empty
\* array and leaves bytesRead as it was; the first one returns a non-empty
\* array when bytes were left.
C6_SecondReadUntilEofIsEmpty ==
    (pc = "idle" /\ last.fn = "readUntilEof" /\ last.status = "ok") =>
        /\ last.eofBefore => (last.bytes = <<>> /\ bytesRead = last.before)
        /\ (~last.eofBefore /\ last.unreadLen + last.restLen > 0) => last.bytes # <<>>

\* a second readUntilEof has returned the empty array after the first returned bytes
C6_Witness ==
    /\ pc = "idle" /\ last.fn = "readUntilEof" /\ last.status = "ok"
    /\ last.eofBefore /\ hist.drained > 1 /\ last.bytes = <<>>
    /\ bytesRead = hist.requested + hist.drained

----------------------------------------------------------------------------
\* bytesRead under lengths of any sign

\* C7: every completed read(len), for any integer len, adds to bytesRead the
\* number of bytes in the array it returns, and no step of the reader decreases
\* bytesRead.  (read adds len itself: this does not hold of read(-1).)
C7_BytesReadFollowsReturnedLength ==
    [][ /\ bytesRead' >= bytesRead
        /\ (pc = "slice" /\ pc' = "idle") => bytesRead' = bytesRead + Len(last'.bytes) ]_vars

----------------------------------------------------------------------------
\* Properties of the decode functions and of the typed writes

\* the bytes of cIn in the order that makes cVal their value under cEndian
InOrder == IF cEndian = Big THEN cIn ELSE Reverse(cIn)

\* C8: writing a representable value with writeUintW / writeIntW and decoding
\* the chunk the sink received with readUintW / readIntW in the same byte order
\* gives the value back, with each of the three strategies.
C8_RoundTrip ==
    cPhase = "done" =>
        /\ Len(sink) = 1 /\ Len(sink[1]) = WidthOf(cFn)
        /\ \A s \in Strategies : cBack[s] = cVal

\* the smallest int64, written and read back in Little order
C8_Witness ==
    /\ cPhase = "done" /\ cFn = "readInt64" /\ cEndian = Little
    /\ cVal = [neg |-> TRUE, mag |-> <<0, 0, 0, 0, 0, 0, 0, 128>>]
    /\ cBack[DefaultValueReader] = cVal

\* C9: for every input of exactly W bytes, every decode function and every byte
\* order, BitOpsValueReader, DataViewValueReader and PerformanceValueReader
\* return the same value.
C9_StrategiesAgree ==
    cPhase \in {"decoded", "encoding", "encoded", "done"} =>
        /\ cOut["BitOps"] = cOut["DataView"]
        /\ cOut["DataView"] = cOut["Performance"]

\* readUint32 of 0x89ABCDEF in Big order, on instances whose scratch buffer is not
\* zero
C9_Witness ==
    /\ cPhase = "decoded" /\ cFn = "readUint32" /\ cEndian = Big
    /\ cIn = <<137, 171, 205, 239>>
    /\ cScratch["BitOps"][8] = 165
    /\ cOut["BitOps"] = [neg |-> FALSE, mag |-> <<239, 205, 171, 137>>]

\* C10: for the widths 16, 32 and 64, a write in Big order emits the most
\* significant byte first and a write in Little order emits the same bytes
\* reversed (0x1234: 0x12 0x34 in Big order, 0x34 0x12 in Little order); decoding
\* b0..b(W-1) in Big order gives the value with b0 most significant, in Little
\* order the value with b0 least significant.
C10_ByteOrder ==
    /\ (cPhase \in {"encoding", "encoded", "done"} /\ WidthOf(cFn) > 1) =>
           /\ sink[1] = InOrder
           /\ (cFn = "readUint16" /\ cVal = [neg |-> FALSE, mag |-> <<52, 18>>]) =>
                  sink[1] = IF cEndian = Big THEN <<18, 52>> ELSE <<52, 18>>
    /\ (cPhase \in {"decoded", "encoding", "encoded", "done"} /\ WidthOf(cFn) > 1) =>
           \A s \in Strategies :
               cOut[s] = ValueOfBytes(cFn, IF cEndian = Big THEN cIn ELSE Reverse(cIn))

\* 0x1234 written as a 16-bit value in Little order
C10_Witness ==
    /\ cPhase = "done" /\ cFn = "readUint16" /\ cEndian = Little
    /\ cVal = [neg |-> FALSE, mag |-> <<52, 18>>]
    /\ sink[1] = <<52, 18>>
    /\ cOut[DefaultValueReader] = [neg |-> FALSE, mag |-> <<18, 52>>]

----------------------------------------------------------------------------
\* The typed calls with the endian argument omitted, next to the same calls
\* with Endian.Big: a writer that writes cVal twice, and a reader on a stream of
\* two chunks holding the same bytes cIn

MultiByteFns == {fn \in ReadFns : WidthOf(fn) > 1}

InitDefault ==
    /\ WriterInit
    /\ cFn \in MultiByteFns
    /\ cEndian = Undefined
    /\ cIn \in Inputs(WidthOf(cFn))
    /\ cVal = ValueOfBytes(cFn, cIn)
    /\ cScratch = [s \in Strategies |-> ZeroScratch]
    /\ cPhase = "write1"
    /\ cOut = NoValues
    /\ cBack = NoValues
    /\ conv = NoConv
    /\ source = <<cIn, cIn>>
    /\ payload = cIn \o cIn
    /\ locked = TRUE
    /\ buffer = <<>>
    /\ bufferOffset = 0
    /\ bytesRead = 0
    /\ valueReader = DefaultValueReader
    /\ dvScratch = ZeroScratch
    /\ pc = "idle"
    /\ call = NoCall
    /\ pulled = NoPull
    /\ chunks = <<>>
    /\ last = NoCall
    /\ hist = [requested |-> 0, drained |-> 0, eofDone |-> FALSE, negReads |-> 0]
    /\ plain = NoPlain
    /\ race = NoRace

\* writeXxx(cVal), then writeXxx(cVal, Endian.Big)
DefaultWrite ==
    /\ cPhase \in {"write1", "write2"}
    /\ WriteTyped(WriteFnOf(cFn), cVal, IF cPhase = "write1" THEN cEndian ELSE Big)
    /\ cPhase' = IF cPhase = "write1" THEN "written1" ELSE "written2"
    /\ UNCHANGED <<conv, cFn, cEndian, cIn, cVal, cScratch, cOut, cBack>>
    /\ UNCHANGED rvars

DefaultWritten ==
    /\ cPhase \in {"written1", "written2"}
    /\ WriteReturn
    /\ cPhase' = IF cPhase = "written1" THEN "write2" ELSE "read1"
    /\ UNCHANGED <<conv, cFn, cEndian, cIn, cVal, cScratch, cOut, cBack>>
    /\ UNCHANGED rvars

\* readXxx(), then readXxx(Endian.Big)
DefaultRead ==
    \/ /\ cPhase = "read1" /\ last.fn = "none"
       /\ ReadCall(cFn, WidthOf(cFn), cEndian)
    \/ /\ cPhase = "read2" /\ hist.requested = WidthOf(cFn)
       /\ ReadCall(cFn, WidthOf(cFn), Big)

\* the caller keeps what the first read returned
DefaultKeep ==
    /\ cPhase = "read1" /\ pc = "idle" /\ last.fn # "none"
    /\ cOut' = [s \in Strategies |-> last.value]
    /\ cPhase' = "read2"
    /\ UNCHANGED <<conv, cFn, cEndian, cIn, cVal, cScratch, cBack>>
    /\ UNCHANGED <<rvars, wvars>>

\* the caller keeps what the second read returned
DefaultDone ==
    /\ cPhase = "read2" /\ pc = "idle" /\ hist.requested = 2 * WidthOf(cFn)
    /\ cBack' = [s \in Strategies |-> last.value]
    /\ cPhase' = "done"
    /\ UNCHANGED <<conv, cFn, cEndian, cIn, cVal, cScratch, cOut>>
    /\ UNCHANGED <<rvars, wvars>>

NextDefault ==
    \/ DefaultWrite
    \/ DefaultWritten
    \/ DefaultRead
    \/ EnsureAppend
    \/ ReadSlice
    \/ DefaultKeep
    \/ DefaultDone

SpecDefault == InitDefault /\ [][NextDefault]_vars

\* C11: a multi-byte write without the endian argument emits the chunk the same
\* write with Endian.Big emits, and a multi-byte read without the argument
\* returns the value the same read with Endian.Big returns for the same bytes
\* (the value with the first byte most significant).
C11_DefaultIsBig ==
    /\ Len(sink) = 2 => (sink[1] = sink[2] /\ sink[1] = cIn)
    /\ cPhase = "done" => (cOut = cBack /\ cOut[DefaultValueReader] = cVal)

\* 0x1234 written and read as uint16 without the argument and with Endian.Big
C11_Witness ==
    /\ cPhase = "done" /\ cEndian = Undefined /\ cFn = "readUint16"
    /\ cIn = <<18, 52>> /\ sink = <<cIn, cIn>>
    /\ cOut[DefaultValueReader] = [neg |-> FALSE, mag |-> <<52, 18>>]

----------------------------------------------------------------------------
\* Two's complement

\* the carry into digit i of a + b, for little-endian digit sequences of one length
RECURSIVE CarryInto(_, _, _)
CarryInto(a, b, i) ==
    IF i = 1 THEN 0
    ELSE IF a[i - 1] + b[i - 1] + CarryInto(a, b, i - 1) >= 256 THEN 1 ELSE 0

\* a + b modulo 256^Len(a)
AddMod(a, b) == [i \in 1..Len(a) |-> (a[i] + b[i] + CarryInto(a, b, i)) % 256]

\* the chunk the sink received, least significant byte first
EmittedLE == IF cEndian = Little THEN sink[1] ELSE Reverse(sink[1])

MinusOne == [neg |-> TRUE, mag |-> <<1>>]

\* -2^(8w - 1)
MinSigned(w) == [neg |-> TRUE, mag |-> [i \in 1..w |-> IF i = w THEN 128 ELSE 0]]

\* C12: writeIntW of a signed value v emits the W/8 bytes of v mod 2^W: the
\* bytes of v itself when v >= 0, and bytes that added to |v| give 2^W (zero with
\* a carry out) when v < 0; -1 gives only 0xFF bytes, and the minimum in Big
\* order gives 0x80 followed by zero bytes.
C12_TwosComplement ==
    (cPhase \in {"encoding", "encoded", "done"} /\ IsSigned(cFn)) =>
        LET w == WidthOf(cFn)
        IN  /\ Len(sink[1]) = w
            /\ ~cVal.neg => EmittedLE = Pad(cVal.mag, w)
            /\ cVal.neg =>
                  /\ AddMod(EmittedLE, Pad(cVal.mag, w)) = [i \in 1..w |-> 0]
                  /\ EmittedLE[w] >= 128
            /\ cVal = MinusOne => sink[1] = [i \in 1..w |-> 255]
            /\ (cVal = MinSigned(w) /\ cEndian = Big) =>
                  sink[1] = [i \in 1..w |-> IF i = 1 THEN 128 ELSE 0]

\* the smallest int32 written in Big order
C12_Witness ==
    /\ cPhase = "encoded" /\ cFn = "readInt32" /\ cEndian = Big
    /\ cVal = MinSigned(4)
    /\ sink[1] = <<128, 0, 0, 0>>

----------------------------------------------------------------------------
\* Signed and unsigned decode

\* the input of the decode, least significant byte first
InputLE == IF cEndian = Little THEN cIn ELSE Reverse(cIn)

\* v is the non-negative integer with the little-endian digits le
IsValueOf(v, le) ==
    /\ ~v.neg
    /\ Len(v.mag) <= Len(le)
    /\ Pad(v.mag, Len(le)) = le
    /\ (v.mag # <<>> => v.mag[Len(v.mag)] # 0)

\* v is u - 256^Len(le) for the unsigned value u of the digits le
IsValueMinusModulus(v, le) ==
    /\ v.neg
    /\ v.mag # <<>> /\ v.mag[Len(v.mag)] # 0
    /\ Len(v.mag) <= Len(le)
    /\ AddMod(le, Pad(v.mag, Len(le))) = [i \in 1..Len(le) |-> 0]

\* C13: for every W-bit input with unsigned value u, readIntW of each strategy
\* returns u when u < 2^(W-1) and u - 2^W when u >= 2^(W-1), the widths 8 and 16
\* (decoded with 32-bit shifts) included.
C13_SignedDecode ==
    (cPhase \in {"decoded", "encoding", "encoded", "done"} /\ IsSigned(cFn)) =>
        \A s \in Strategies :
            IF InputLE[WidthOf(cFn)] < 128
            THEN IsValueOf(cOut[s], InputLE)
            ELSE IsValueMinusModulus(cOut[s], InputLE)

\* readInt16 of 0xFF 0xFE in Little order: 0xFEFF - 0x10000 = -257
C13_Witness ==
    /\ cPhase = "decoded" /\ cFn = "readInt16" /\ cEndian = Little
    /\ cIn = <<255, 254>>
    /\ cOut["BitOps"] = [neg |-> TRUE, mag |-> <<1, 1>>]
    /\ cOut["Performance"] = cOut["BitOps"]

\* C14: BitOpsValueReader.readUint32 and readUint64 return, for every input and
\* each byte order, the non-negative integer that is the sum of byte_i *
\* 256^position_i, also when the top bit of the value or of a 4-byte sub-chunk
\* is set: a value in [0, 2^32), respectively [0, 2^64).
C14_BitOpsUnsignedExact ==
    (cPhase \in {"decoded", "encoding", "encoded", "done"}
        /\ cFn \in {"readUint32", "readUint64"}) =>
            IsValueOf(cOut["BitOps"], InputLE)

\* readUint64 in Big order of an input whose two sub-chunks both have the top
\* bit set
C14_Witness ==
    /\ cPhase = "decoded" /\ cFn = "readUint64" /\ cEndian = Big
    /\ cIn = <<137, 171, 205, 239, 255, 255, 255, 255>>
    /\ cOut["BitOps"] = [neg |-> FALSE, mag |-> <<255, 255, 255, 255, 239, 205, 171, 137>>]

----------------------------------------------------------------------------
\* A StreamWriter that receives a sequence of awaited calls

\* calls made on one writer
MaxWrites == 2
\* code points of a string passed to writeString
MaxStrLen == 2

\* buffers passed to write: empty, one byte, three bytes
WriteBuffers == {<<>>, <<7>>, <<1, 2, 3>>}

\* strings passed to writeString, as code points: "A" is one byte in UTF-8, U+00E9 two
Strings == UNION {[1..k -> {65, 233}] : k \in 0..MaxStrLen}

\* W-byte patterns, most significant byte first: all ones, the top bit alone, and
\* W different bytes
WriterBytes(w) == { [i \in 1..w |-> 255],
                    [i \in 1..w |-> IF i = 1 THEN 128 ELSE 0],
                    [i \in 1..w |-> 16 + i] }

WriterValues(fn) == {ValueOfBytes(fn, b) : b \in WriterBytes(WidthOf(fn))}

InitWriter ==
    /\ ReaderIdle
    /\ WriterInit
    /\ CodecIdle

WriterWrite ==
    /\ Len(wlog) < MaxWrites
    /\ \E bytes \in WriteBuffers : Write(bytes)
    /\ UNCHANGED <<rvars, cvars>>

WriterWriteString ==
    /\ Len(wlog) < MaxWrites
    /\ \E str \in Strings : WriteString(str)
    /\ UNCHANGED <<rvars, cvars>>

WriterWriteTyped ==
    /\ Len(wlog) < MaxWrites
    /\ \E fn \in ReadFns : \E value \in WriterValues(fn) : \E endian \in EndianOf(fn) :
          WriteTyped(WriteFnOf(fn), value, endian)
    /\ UNCHANGED <<rvars, cvars>>

WriterReturn ==
    /\ WriteReturn
    /\ UNCHANGED <<rvars, cvars>>

NextWriter ==
    \/ WriterWrite
    \/ WriterWriteString
    \/ WriterWriteTyped
    \/ WriterReturn

SpecWriter == InitWriter /\ [][NextWriter]_vars

TypedWrite(e) == e.fn \notin {"write", "writeString"}

\* C15: every awaited writer call hands exactly one chunk to the sink: the sink
\* holds one chunk per call, in call order; the chunk of write(buffer) is the
\* buffer's bytes, the chunk of writeString(s) the UTF-8 bytes of s, the chunk of a
\* W-bit typed write W/8 bytes long; and the call returns its chunk's byte count
\* (0 for an empty buffer or string, whose empty chunk is still handed over)
C15_OneChunkPerCall ==
    /\ Len(sink) = Len(wlog)
    /\ \A i \in 1..Len(wlog) :
          LET e == wlog[i]
          IN  /\ e.fn = "write" => sink[i] = e.bytes
              /\ e.fn = "writeString" =>
                    /\ Len(sink[i]) >= Len(e.str)
                    /\ (\A k \in 1..Len(e.str) : e.str[k] < 128) => sink[i] = e.str
              /\ TypedWrite(e) => Len(sink[i]) = WriteWidth(e.fn)
              /\ (i < Len(wlog) \/ wpc = "idle") => e.ret = <<Len(sink[i])>>

C15_Witness ==
    /\ wpc = "idle"
    /\ Len(wlog) = 2
    /\ wlog[1].fn = "write" /\ wlog[1].bytes = <<>> /\ wlog[1].ret = <<0>>
    /\ wlog[2].fn = "writeString" /\ wlog[2].str = <<65, 233>> /\ wlog[2].ret = <<3>>
    /\ sink = << <<>>, <<65, 195, 169>> >>

\* the chunk holds the w bytes of v in the byte order endian: read least
\* significant byte first it is the magnitude of a value v >= 0, and it adds up
\* with the magnitude to 2^(8w) for a value v < 0
HoldsValue(chunk, v, w, endian) ==
    LET le == IF endian = Little THEN chunk ELSE Reverse(chunk)
    IN  /\ Len(chunk) = w
        /\ ~v.neg => le = Pad(v.mag, w)
        /\ v.neg => AddMod(le, Pad(v.mag, w)) = [i \in 1..w |-> 0]

\* C16: reusing the writer's 8-byte buffer is safe: at any time, whatever was
\* written before or after it, the chunk of a typed write holds exactly the W/8
\* bytes of its own value
C16_ScratchReuseIsSafe ==
    \A i \in 1..Len(wlog) :
        (i <= Len(sink) /\ TypedWrite(wlog[i])) =>
            HoldsValue(sink[i], wlog[i].value, WriteWidth(wlog[i].fn), wlog[i].endian)

C16_Witness ==
    /\ wpc = "idle"
    /\ Len(wlog) = 2
    /\ wlog[1].fn = "writeUint64" /\ wlog[1].endian = Big
    /\ wlog[2].fn = "writeInt8" /\ wlog[2].value = MinusOne
    /\ wbuffer = <<255, 18, 19, 20, 21, 22, 23, 24>>
    /\ sink = << <<17, 18, 19, 20, 21, 22, 23, 24>>, <<255>> >>

----------------------------------------------------------------------------
\* The StreamReader with trimBuffer and the StreamReader of src/stream.ts, each on
\* its own stream with the same chunks, receiving the same awaited calls

InitPair ==
    /\ WriterInit
    /\ CodecIdle
    /\ source \in Sources
    /\ payload = Flatten(source)
    /\ locked = TRUE
    /\ buffer = <<>>
    /\ bufferOffset = 0
    /\ bytesRead = 0
    /\ valueReader = DefaultValueReader
    /\ dvScratch = ZeroScratch
    /\ pc = "idle"
    /\ call = NoCall
    /\ pulled = NoPull
    /\ chunks = <<>>
    /\ last = NoCall
    /\ hist = [requested |-> 0, drained |-> 0, eofDone |-> FALSE, negReads |-> 0]
    /\ plain = [NoPlain EXCEPT !.on = TRUE, !.source = source]
    /\ race = NoRace

NextPair ==
    \/ Read
    \/ EnsureAppend
    \/ EnsureThrow
    \/ ReadSlice
    \/ EofCall
    \/ EofPush
    \/ EofDone

SpecPair == InitPair /\ [][NextPair]_vars

\* C17: compaction is transparent: after every awaited read / readUntilEof call,
\* the reader with trimBuffer and the reader of src/stream.ts, given the same
\* chunks and the same calls, have returned the same bytes or failed alike, and
\* show the same bytesRead
C17_CompactionIsTransparent ==
    (plain.on /\ pc = "idle") =>
        /\ bytesRead = plain.bytesRead
        /\ last.fn # "none" =>
              /\ last.status = plain.status
              /\ last.status = "ok" => last.bytes = plain.bytes

C17_Witness ==
    /\ plain.on /\ pc = "idle"
    /\ last.fn = "read" /\ last.status = "ok" /\ last.bytes = <<3, 4>>
    /\ bytesRead = 4
    /\ buffer = <<5>> /\ bufferOffset = 0
    /\ plain.buffer = <<1, 2, 3, 4, 5>> /\ plain.bufferOffset = 4

----------------------------------------------------------------------------
\* the window holds at most twice as many bytes as it holds unread bytes
WindowBounded == Len(buffer) <= 2 * (Len(buffer) - bufferOffset)

\* C18 as stated: after any sequence of completed reads, failed reads and
\* readUntilEof calls the window is at most twice its unread part, so a window
\* with no unread byte is empty
C18_WindowAtMostTwiceUnread == pc = "idle" => WindowBounded

\* C18, amended: after completed reads, successful or failed, the window is at most
\* twice its unread part; readUntilEof does not compact: once one has completed
\* the cursor may stand at the end of a window that is not empty, which is the
\* window the first such call found, at most twice the unread part it found; a
\* successful read, read(0) included, restores the bound
C18_WindowBoundedUntilEof ==
    pc = "idle" =>
        /\ ~hist.eofDone => WindowBounded
        /\ (last.fn = "read" /\ last.status = "ok") => WindowBounded
        /\ ~WindowBounded => bufferOffset = Len(buffer)
        /\ (last.fn = "readUntilEof" /\ last.status = "ok" /\ ~last.eofBefore) =>
              Len(buffer) <= 2 * last.unreadLen

C18_Witness ==
    /\ pc = "idle"
    /\ last.fn = "readUntilEof" /\ last.status = "ok" /\ last.unreadLen = 2
    /\ buffer = <<1, 2, 3>> /\ bufferOffset = 3
    /\ bytesRead = 3

----------------------------------------------------------------------------
\* Two reads on one StreamReader, the second issued while the first is outstanding.
\* The chunks are in the stream from the start, so every awaited promise is
\* settled when it is awaited and the continuations run in the order in which
\* the calls suspended (race.queue)

\* race after call i suspended in position p (awaiting the pull result pl)
Suspended(i, p, n, pl) ==
    [task |-> [race.task EXCEPT ![i] = [NoTask EXCEPT !.pc = p, !.n = n, !.pulled = pl]],
     queue |-> Append(IF race.queue # <<>> /\ Head(race.queue) = i
                      THEN Tail(race.queue) ELSE race.queue, i)]

\* race after call i settled
Settled(i, status, bytes) ==
    [task |-> [race.task EXCEPT ![i] = [@ EXCEPT !.pc = "done", !.pulled = NoPull,
                                                  !.status = status, !.bytes = bytes]],
     queue |-> Tail(race.queue)]

\* read(n) up to its first await, as the call i of the race
RaceIssue(i, n) ==
    /\ pc = "idle"
    /\ race.task[i].pc = "none"
    /\ IF needMore(buffer, bufferOffset, n)
       THEN /\ race' = Suspended(i, "ensure", n, ReaderRead(source, locked))
            /\ source' = SourceAfterRead(source, locked)
       ELSE /\ race' = Suspended(i, "slice", n, NoPull)
            /\ UNCHANGED source
    /\ UNCHANGED <<locked, buffer, bufferOffset, bytesRead, valueReader, dvScratch,
                   pc, call, pulled, chunks, last, payload, hist, plain>>
    /\ UNCHANGED <<wvars, cvars>>

\* awaited reads before the race
RacePrior ==
    /\ race.task[1].pc = "none"
    /\ Read

\* the first read, not awaited
RaceFirst == \E n \in 0..MaxReadLen : RaceIssue(1, n)

\* the second read, issued while the first is outstanding
RaceSecond ==
    /\ race.task[1].pc \in {"ensure", "slice"}
    /\ \E n \in 0..MaxReadLen : RaceIssue(2, n)

\* ensureBufferFilledToAtLeast of call i resumes with a chunk
RaceEnsureAppend ==
    \E i \in 1..2 :
        /\ race.queue # <<>> /\ Head(race.queue) = i
        /\ race.task[i].pc = "ensure"
        /\ "value" \in DOMAIN race.task[i].pulled
        /\ LET newBuffer == appendChunk(buffer, race.task[i].pulled.value)
           IN  /\ buffer' = newBuffer
               /\ IF needMore(newBuffer, bufferOffset, race.task[i].n)
                  THEN /\ race' = Suspended(i, "ensure", race.task[i].n,
                                            ReaderRead(source, locked))
                       /\ source' = SourceAfterRead(source, locked)
                  ELSE /\ race' = Suspended(i, "slice", race.task[i].n, NoPull)
                       /\ UNCHANGED source
        /\ UNCHANGED <<locked, bufferOffset, bytesRead, valueReader, dvScratch,
                       pc, call, pulled, chunks, last, payload, hist, plain>>
        /\ UNCHANGED <<wvars, cvars>>

\* ensureBufferFilledToAtLeast of call i resumes with done: the call rejects
RaceEnsureThrow ==
    \E i \in 1..2 :
        /\ race.queue # <<>> /\ Head(race.queue) = i
        /\ race.task[i].pc = "ensure"
        /\ "done" \in DOMAIN race.task[i].pulled
        /\ race' = Settled(i, "EndOfStream", <<>>)
        /\ UNCHANGED <<source, locked, buffer, bufferOffset, bytesRead, valueReader,
                       dvScratch, pc, call, pulled, chunks, last, payload, hist, plain>>
        /\ UNCHANGED <<wvars, cvars>>

\* call i resumes after ensureBufferFilledToAtLeast: slice, advance, trimBuffer
RaceReadSlice ==
    \E i \in 1..2 :
        /\ race.queue # <<>> /\ Head(race.queue) = i
        /\ race.task[i].pc = "slice"
        /\ LET r == readStep(buffer, bufferOffset, bytesRead, race.task[i].n)
           IN  /\ buffer' = r.buffer
               /\ bufferOffset' = r.bufferOffset
               /\ bytesRead' = r.bytesRead
               /\ race' = Settled(i, "ok", r.value)
        /\ UNCHANGED <<source, locked, valueReader, dvScratch, pc, call, pulled,
                       chunks, last, payload, hist, plain>>
        /\ UNCHANGED <<wvars, cvars>>

NextRace ==
    \/ RacePrior
    \/ EnsureAppend
    \/ EnsureThrow
    \/ ReadSlice
    \/ RaceFirst
    \/ RaceSecond
    \/ RaceEnsureAppend
    \/ RaceEnsureThrow
    \/ RaceReadSlice

SpecRace == Init /\ [][NextRace]_vars

\* the bytes of two arrays are different bytes of the stream
Disjoint(a, b) == \A k \in 1..Len(a) : \A l \in 1..Len(b) : a[k] # b[l]

\* C19: once a read's availability check has passed, its slice, advance and
\* compaction follow with no step of another read in between, so a second read
\* issued while a first is outstanding cannot take the bytes the first was checked
\* against: every read that succeeds returns the number of bytes it asked for,
\* and two reads that succeed return different bytes of the stream
C19_CheckedBytesAreKept ==
    \A i \in 1..2 :
        (race.task[i].pc = "done" /\ race.task[i].status = "ok") =>
            /\ Len(race.task[i].bytes) = race.task[i].n
            /\ \A j \in 1..2 :
                  (j # i /\ race.task[j].pc = "done" /\ race.task[j].status = "ok") =>
                      Disjoint(race.task[i].bytes, race.task[j].bytes)

\* read(1) awaited on a stream holding the chunk 1 2 3, then read(2) and read(2)
\* issued together: both checks pass on the bytes 2 3; the second read returns
\* no byte and bytesRead is 5
C19_BothCheckedAgainstTheSameBytes ==
    /\ payload = <<1, 2, 3>>
    /\ race.task[1].pc = "done" /\ race.task[1].n = 2 /\ race.task[1].bytes = <<2, 3>>
    /\ race.task[2].pc = "done" /\ race.task[2].n = 2 /\ race.task[2].status = "ok"
    /\ race.task[2].bytes = <<>>
    /\ bytesRead = 5

----------------------------------------------------------------------------
\* read(0) and readString(0)

\* read, readString, readUntilEof and close on one reader
NextBytes ==
    \/ Read
    \/ ReadString
    \/ EnsureAppend
    \/ EnsureThrow
    \/ PullRejected
    \/ ReadSlice
    \/ EofCall
    \/ EofPush
    \/ EofDone
    \/ Close

SpecBytes == Init /\ [][NextBytes]_vars

\* this step issues read(0) or readString(0)
ZeroLengthIssued ==
    pc = "idle" /\ pc' # "idle" /\ call'.fn \in {"read", "readString"} /\ call'.n = 0

\* this step completes read(0) or readString(0)
ZeroLengthCompleted ==
    pc # "idle" /\ call.fn \in {"read", "readString"} /\ call.n = 0 /\ pc' = "idle"

\* the call does not ask the source for a chunk, succeeds, and returns nothing
ZeroLengthSucceeds ==
    /\ ZeroLengthIssued => (pc' = "slice" /\ source' = source /\ pulled' = pulled)
    /\ ZeroLengthCompleted =>
          /\ source' = source
          /\ last'.status = "ok" /\ last'.bytes = <<>> /\ last'.value = <<>>
          /\ bytesRead' = bytesRead

\* C20 as stated: read(0) and readString(0) always succeed, return an empty result,
\* never pull, and leave bytesRead, the window and the cursor as they were, in
\* every state of the reader
C20_ZeroLengthIsNoOp ==
    [][/\ ZeroLengthSucceeds
       /\ ZeroLengthCompleted => (buffer' = buffer /\ bufferOffset' = bufferOffset)]_vars

\* C20, amended: read(0) and readString(0) always succeed, return an empty result,
\* never pull, and leave bytesRead and the unread bytes as they were; the window
\* and the cursor are as they were unless the cursor stood past half of the window,
\* which is so only after a readUntilEof: then the call drops the consumed bytes
\* and sets the cursor to 0
C20_ZeroLengthKeepsUnread ==
    [][/\ ZeroLengthSucceeds
       /\ ZeroLengthCompleted =>
             /\ slice(buffer', bufferOffset', Len(buffer'))
                    = slice(buffer, bufferOffset, Len(buffer))
             /\ IF bufferOffset > Len(buffer) \div 2
                THEN hist.eofDone /\ bufferOffset' = 0 /\ Len(buffer') = Len(buffer) - bufferOffset
                ELSE buffer' = buffer /\ bufferOffset' = bufferOffset]_vars

C20_Witness ==
    /\ pc = "idle"
    /\ last.fn = "readString" /\ last.n = 0 /\ last.status = "ok" /\ last.value = <<>>
    /\ last.eofBefore /\ last.restLen = 0
    /\ payload = <<1, 2, 3>> /\ bytesRead = 3
    /\ buffer = <<>> /\ bufferOffset = 0

----------------------------------------------------------------------------
\* close()

\* C21: close() on a StreamReader only releases the source: the step that
\* releases the lock leaves bytesRead, the window, the cursor and the chunks still
\* in the stream as they were, and the array the last read returned keeps its
\* contents
C21_CloseOnlyReleases ==
    [][(locked /\ ~locked') =>
          /\ bytesRead' = bytesRead
          /\ buffer' = buffer
          /\ bufferOffset' = bufferOffset
          /\ source' = source
          /\ last' = last]_vars

C21_Witness ==
    /\ ~locked
    /\ pc = "idle"
    /\ buffer = <<1, 2, 3>> /\ bufferOffset = 1 /\ bytesRead = 1
    /\ last.fn = "read" /\ last.status = "ok" /\ last.bytes = <<1>>

----------------------------------------------------------------------------
\* uint8ArrayFromBufferSource (src/buffer.ts)

\* bytes of the largest ArrayBuffer
MaxBufLen == 4

\* ArrayBuffers of 0..MaxBufLen bytes; the k-th byte is k
ArrayBuffers == {[id |-> 1, bytes |-> [i \in 1..n |-> i]] : n \in 0..MaxBufLen}

\* the views on an ArrayBuffer: typed arrays and DataView
ViewKinds == {"Uint8Array", "Int8Array", "Uint16Array", "Int32Array", "Float32Array",
              "DataView"}

\* BYTES_PER_ELEMENT
ElementSize(kind) == CASE kind = "Uint16Array" -> 2
                       [] kind \in {"Int32Array", "Float32Array"} -> 4
                       [] OTHER -> 1

\* a view of kind k on the bytes off .. off + len - 1 of buffer b
ViewOn(k, b, off, len) == [kind |-> k, buffer |-> b, byteOffset |-> off, byteLength |-> len]

\* every view on every ArrayBuffer, whole or partial, aligned to its element size
Views ==
    {ViewOn(k, b, off, len) :
        k \in ViewKinds, b \in ArrayBuffers, off \in 0..MaxBufLen, len \in 0..MaxBufLen}
    \cap {v \in [kind : ViewKinds, buffer : ArrayBuffers, byteOffset : 0..MaxBufLen,
                  byteLength : 0..MaxBufLen] :
             /\ v.byteOffset + v.byteLength <= Len(v.buffer.bytes)
             /\ v.byteOffset % ElementSize(v.kind) = 0
             /\ v.byteLength % ElementSize(v.kind) = 0}

\* values that are no BufferSource
OtherKinds == {"string", "number", "object", "null", "undefined"}

BufferSources ==
    {ViewOn("ArrayBuffer", b, 0, Len(b.bytes)) : b \in ArrayBuffers}
    \cup Views
    \cup {ViewOn(k, NoArrayBuffer, 0, 0) : k \in OtherKinds}

\* a returned Uint8Array on the bytes off .. off + len - 1 of buffer b
Returned(b, off, len) ==
    [status |-> "ok", message |-> "", buffer |-> b, byteOffset |-> off, length |-> len]

Thrown(type, message) ==
    [status |-> type, message |-> message, buffer |-> NoArrayBuffer, byteOffset |-> 0,
     length |-> 0]

\* the message of the TypeError that reading a property of null or undefined
\* throws; the engine words it
NullishMessage == "Cannot read properties of null or undefined"

uint8ArrayFromBufferSource(bufferSource) ==
    IF bufferSource.kind = "ArrayBuffer"
    THEN Returned(bufferSource.buffer, 0, Len(bufferSource.buffer.bytes))
    ELSE IF bufferSource.kind = "Uint8Array"
    THEN Returned(bufferSource.buffer, bufferSource.byteOffset, bufferSource.byteLength)
    ELSE IF bufferSource.kind \in {"null", "undefined"}
    THEN Thrown("TypeError", NullishMessage)
    ELSE IF bufferSource.kind \in ViewKinds
    THEN Returned(bufferSource.buffer, 0, Len(bufferSource.buffer.bytes))
    ELSE Thrown("TypeError", "Unsupported BufferSource type")

InitBuffer ==
    /\ ReaderIdle
    /\ WriterInit
    /\ cFn = "none"
    /\ cEndian = Big
    /\ cIn = <<>>
    /\ cVal = Zero
    /\ cScratch = [s \in Strategies |-> ZeroScratch]
    /\ cPhase = "none"
    /\ cOut = NoValues
    /\ cBack = NoValues
    /\ \E x \in BufferSources : conv = [phase |-> "new", input |-> x, result |-> NoResult]

\* the call uint8ArrayFromBufferSource(conv.input)
Convert ==
    /\ conv.phase = "new"
    /\ conv' = [conv EXCEPT !.phase = "done",
                            !.result = uint8ArrayFromBufferSource(conv.input)]
    /\ UNCHANGED <<cFn, cEndian, cIn, cVal, cScratch, cPhase, cOut, cBack>>
    /\ UNCHANGED <<rvars, wvars>>

NextBuffer == Convert

SpecBuffer == InitBuffer /\ [][NextBuffer]_vars

\* the bytes a view covers
Covered(b, off, len) == slice(b.bytes, off, off + len)

\* C22: for an ArrayBuffer, a Uint8Array, any other typed array and a DataView,
\* whole or partial, uint8ArrayFromBufferSource returns a view on the same
\* ArrayBuffer whose length is the input's byte length and whose bytes are the
\* bytes the input covers; for every other input it throws TypeError
\* 'Unsupported BufferSource type'
C22_CanonicalByteView ==
    conv.phase = "done" =>
        IF conv.input.kind \in ViewKinds \cup {"ArrayBuffer"}
        THEN /\ conv.result.status = "ok"
             /\ conv.result.buffer = conv.input.buffer
             /\ conv.result.length = conv.input.byteLength
             /\ Covered(conv.result.buffer, conv.result.byteOffset, conv.result.length)
                  = Covered(conv.input.buffer, conv.input.byteOffset, conv.input.byteLength)
        ELSE /\ conv.result.status = "TypeError"
             /\ conv.result.message = "Unsupported BufferSource type"

\* new DataView(buffer, 1, 2) on a 4-byte ArrayBuffer: the result covers all 4
\* bytes of the buffer, not the 2 bytes of the view
C22_PartialViewWidened ==
    /\ conv.phase = "done"
    /\ conv.input = ViewOn("DataView", [id |-> 1, bytes |-> <<1, 2, 3, 4>>], 1, 2)
    /\ conv.result.status = "ok"
    /\ conv.result.byteOffset = 0 /\ conv.result.length = 4

----------------------------------------------------------------------------
\* A StreamWriter on a sink that may reject a chunk

SinkWrite ==
    /\ Len(wlog) < MaxWrites
    /\ \E bytes \in WriteBuffers : Write(bytes)
    /\ UNCHANGED <<rvars, cvars>>

SinkWriteString ==
    /\ Len(wlog) < MaxWrites
    /\ \E str \in Strings : WriteString(str)
    /\ UNCHANGED <<rvars, cvars>>

\* every typed write, of the value whose bytes are 17, 18, ...
SinkWriteTyped ==
    /\ Len(wlog) < MaxWrites
    /\ \E fn \in ReadFns :
          WriteTyped(WriteFnOf(fn), ValueOfBytes(fn, [i \in 1..WidthOf(fn) |-> 16 + i]), Big)
    /\ UNCHANGED <<rvars, cvars>>

\* the sink accepts the chunk
SinkAccept ==
    /\ ~Errored
    /\ WriteReturn
    /\ UNCHANGED <<rvars, cvars>>

\* the sink rejects the chunk
SinkReject ==
    /\ WriteReject
    /\ UNCHANGED <<rvars, cvars>>

NextSink ==
    \/ SinkWrite
    \/ SinkWriteString
    \/ SinkWriteTyped
    \/ SinkAccept
    \/ SinkReject

SpecSink == InitWriter /\ [][NextSink]_vars

\* the calls that returned a count, among the first k
RECURSIVE Counted(_)
Counted(k) == IF k = 0 THEN 0
              ELSE Counted(k - 1) + (IF wlog[k].ret # <<>> THEN 1 ELSE 0)

\* C23: write is all-or-fail: a call that has completed either returned the byte
\* count of its whole chunk, which the sink holds, or failed with the sink's error
\* and returned no count; the sink holds a chunk for each call that returned a
\* count and for no other completed call
C23_AllOrFail ==
    /\ \A i \in 1..Len(wlog) :
          (i < Len(wlog) \/ wpc = "idle") =>
              IF wlog[i].err = "none"
              THEN /\ Counted(i) <= Len(sink)
                   /\ Len(sink[Counted(i)]) = byteLengthOf(wlog[i])
                   /\ wlog[i].ret = <<Len(sink[Counted(i)])>>
                   /\ wlog[i].fn = "write" => sink[Counted(i)] = wlog[i].bytes
              ELSE /\ wlog[i].err = "SinkError"
                   /\ wlog[i].ret = <<>>
    /\ wpc = "idle" => Len(sink) = Counted(Len(wlog))
    /\ (wpc = "idle" /\ Len(wlog) > 0 /\ wlog[Len(wlog)].err # "none") => wret = <<>>

C23_Witness ==
    /\ wpc = "idle"
    /\ Len(wlog) = 2
    /\ wlog[1].fn = "write" /\ wlog[1].bytes = <<1, 2, 3>> /\ wlog[1].ret = <<3>>
    /\ wlog[2].fn = "writeUint32" /\ wlog[2].err = "SinkError" /\ wlog[2].ret = <<>>
    /\ wret = <<>>
    /\ sink = << <<1, 2, 3>> >>

----------------------------------------------------------------------------
\* The compaction policy

\* this step completes a successful read
ReadSucceeds == pc = "slice" /\ pc' = "idle"

----------------------------------------------------------------------------
\* The cursor stays inside the window

\* C25: in every state a client reaches with awaited calls to read (lengths not
\* negative), readUntilEof and close, failed reads included, the cursor is at
\* least 0 and at most the length of the window
C25_CursorWithinWindow == 0 <= bufferOffset /\ bufferOffset <= Len(buffer)

C25_Witness ==
    /\ pc = "idle" /\ ~locked
    /\ last.fn = "read" /\ last.status = "TypeError"
    /\ hist.eofDone
    /\ bufferOffset = Len(buffer) /\ Len(buffer) = 3

----------------------------------------------------------------------------
\* read pulls on demand only

\* the chunk reader.read() has delivered and the loop has not appended yet
Pending == IF "value" \in DOMAIN pulled THEN pulled.value ELSE <<>>

\* this step makes read ask the source for a chunk
ReadPulls == pc \in {"idle", "ensure"} /\ pc' = "ensure"

\* this step ends the loop of ensureBufferFilledToAtLeast without a throw
ReadStopsPulling == pc \in {"idle", "ensure"} /\ pc' = "slice"

\* C26: read(n) asks the source for a chunk only while the window holds fewer
\* than n unread bytes: it does not pull with n unread bytes in the window, it
\* stops as soon as they are there, and each chunk it gets is appended at the end
\* of the window, the bytes already there and the cursor unchanged; no chunk is
\* read ahead and none is dropped
C26_PullsOnDemand ==
    /\ [][/\ ReadPulls =>
               /\ Len(buffer') - bufferOffset' < call'.n
               /\ (locked /\ source # <<>>) =>
                     (source' = Tail(source) /\ pulled' = [done |-> FALSE, value |-> Head(source)])
          /\ ReadStopsPulling =>
               /\ Len(buffer') - bufferOffset' >= call'.n
               /\ source' = source
          /\ (pc = "idle" /\ pc' \in {"ensure", "slice"}) =>
               (buffer' = buffer /\ bufferOffset' = bufferOffset)
          /\ (pc = "ensure" /\ pc' \in {"ensure", "slice"}) =>
               /\ buffer' = buffer \o pulled.value
               /\ bufferOffset' = bufferOffset
               /\ Len(buffer) - bufferOffset < call.n]_vars
    /\ [](pc \in {"ensure", "slice"} =>
             /\ bufferOffset = call.offBefore
             /\ buffer \o Pending \o Flatten(source) = call.bufBefore \o call.rest)

C26_Witness ==
    /\ pc = "slice" /\ call.fn = "read" /\ call.n = 2
    /\ call.bufBefore = <<1, 2>> /\ bufferOffset = 1
    /\ buffer = <<1, 2, 3>>
    /\ source = << <<4>> >>

----------------------------------------------------------------------------
\* After readUntilEof

\* C27: once a readUntilEof() has completed, the cursor equals the length of the
\* window and the source is exhausted; every following read(n) with n > 0 fails
\* with EndOfStream and leaves bytesRead unchanged, and read(0) succeeds
C27_NothingLeftAfterEof ==
    /\ (pc = "idle" /\ hist.eofDone) => (bufferOffset = Len(buffer) /\ source = <<>>)
    /\ (ReadCompleted /\ last.eofBefore) =>
          IF last.n > 0
          THEN last.status = "EndOfStream" /\ bytesRead = last.before
          ELSE last.status = "ok" /\ last.bytes = <<>>

\* read(1), then a readUntilEof that returned 3 bytes, then read(2) has failed
C27_Witness ==
    /\ ReadCompleted /\ last.eofBefore /\ last.n = 2 /\ last.status = "EndOfStream"
    /\ hist.drained = 3 /\ hist.requested = 1 /\ bytesRead = 4
    /\ buffer = <<>>

----------------------------------------------------------------------------
\* Termination on a finite source

\* a client that makes awaited read and readUntilEof calls on a reader it keeps
\* open
NextOpen ==
    \/ Read
    \/ EnsureAppend
    \/ EnsureThrow
    \/ ReadSlice
    \/ EofCall
    \/ EofPush
    \/ EofDone

\* every reader.read() of the model is settled (the source holds finitely many
\* chunks and then reports done), and the job queue runs the continuation of a
\* settled await: a continuation that stays enabled is taken
Scheduling ==
    /\ WF_vars(EnsureAppend)
    /\ WF_vars(EnsureThrow)
    /\ WF_vars(ReadSlice)
    /\ WF_vars(EofPush)
    /\ WF_vars(EofDone)

SpecLive == Init /\ [][NextOpen]_vars /\ Scheduling

\* C28: on a source that yields finitely many chunks and then done, every
\* read(n) eventually completes, with n bytes or with EndOfStream, and every
\* readUntilEof() eventually completes; readUntilEof() completes only once the
\* source has reported done
C28_CallsTerminate ==
    /\ (pc # "idle" /\ call.fn = "read") ~>
          (pc = "idle" /\ last.fn = "read" /\ last.status \in {"ok", "EndOfStream"})
    /\ (pc # "idle" /\ call.fn = "readUntilEof") ~>
          (pc = "idle" /\ last.fn = "readUntilEof" /\ last.status = "ok")
    /\ [](ReadCompleted /\ last.status = "ok" => Len(last.bytes) = last.n)
    /\ [][(pc = "drain" /\ pc' = "idle") =>
             ("done" \in DOMAIN pulled /\ pulled.done /\ source = <<>>)]_vars

\* a readUntilEof that took three chunks from the source has completed
C28_Witness ==
    /\ pc = "idle" /\ last.fn = "readUntilEof" /\ last.status = "ok"
    /\ last.unreadLen = 1 /\ last.restLen = 6 /\ Len(last.bytes) = 7
    /\ Len(payload) = 9

----------------------------------------------------------------------------
\* After close

\* C29: once close() has been called the window never grows again: no
\* operation appends a chunk or takes one from the source, and a read(n) that
\* needs more than the unread bytes of the window fails and leaves bytesRead,
\* the cursor and the window as they were
C29_ClosedWindowNeverGrows ==
    /\ [][~locked => (Len(buffer') <= Len(buffer) /\ source' = source)]_vars
    /\ []((~locked /\ pc = "ensure") =>
             /\ "err" \in DOMAIN pulled
             /\ bytesRead = call.before
             /\ bufferOffset = call.offBefore
             /\ buffer = call.bufBefore)
    /\ [][(~locked /\ pc = "ensure" /\ pc' # "ensure") =>
             /\ pc' = "idle" /\ last'.fn = "read" /\ last'.status = "TypeError"
             /\ bytesRead' = bytesRead
             /\ bufferOffset' = bufferOffset
             /\ buffer' = buffer]_vars
    /\ []((ReadCompleted /\ ~last.open /\ last.n > last.unreadLen) =>
             (last.status = "TypeError" /\ bytesRead = last.before))

\* read(2) after close, with one unread byte in the window and a chunk left in
\* the source, has failed
C29_Witness ==
    /\ ReadCompleted /\ ~locked /\ ~last.open
    /\ last.n = 2 /\ last.unreadLen = 1 /\ last.status = "TypeError"
    /\ buffer = <<1, 2>> /\ bufferOffset = 1 /\ bytesRead = 1
    /\ source # <<>>

----------------------------------------------------------------------------
\* One instance of each value reader decoding one input after another

\* inputs of w bytes: zeros, 0x11 0x22 0x33 ..., 0xFE 0xFD 0xFC ...
ScratchInputs(w) ==
    { [i \in 1..w |-> 0], [i \in 1..w |-> 17 * i], [i \in 1..w |-> 255 - i] }

\* new instances: the scratch buffer of new ArrayBuffer(8) is zero
InitScratch ==
    /\ ReaderIdle
    /\ WriterInit
    /\ cFn \in ReadFns
    /\ cEndian \in EndianOf(cFn)
    /\ cIn \in ScratchInputs(WidthOf(cFn))
    /\ cVal = ValueOfBytes(cFn, cIn)
    /\ cScratch = [s \in Strategies |-> ZeroScratch]
    /\ cPhase = "new"
    /\ cOut = NoValues
    /\ cBack = NoValues
    /\ conv = NoConv

\* the client passes the next input, of any width, to the same instances
NextInput ==
    /\ cPhase = "decoded"
    /\ cPhase' = "new"
    /\ \E fn \in ReadFns :
          /\ cFn' = fn
          /\ cEndian' \in EndianOf(fn)
          /\ cIn' \in ScratchInputs(WidthOf(fn))
          /\ cVal' = ValueOfBytes(fn, cIn')
    /\ UNCHANGED <<conv, cScratch, cOut, cBack>>
    /\ UNCHANGED <<rvars, wvars>>

NextScratch ==
    \/ Decode
    \/ NextInput

SpecScratch == InitScratch /\ [][NextScratch]_vars

\* the readers that hold a scratch buffer
ScratchReaders == {"DataView", "Performance"}

\* C30: decoding is stateless: the value DataViewValueReader, and
\* PerformanceValueReader through it, returns for an input of exactly W bytes is
\* the value a new instance returns for that input and byte order, whatever
\* decodes of whatever widths the instance made before, and the call leaves the
\* input buffer as it was
C30_DecodeIsStateless ==
    /\ [](cPhase = "decoded" =>
             \A s \in ScratchReaders :
                 cOut[s] = ValueReaderCall(s, cFn, ZeroScratch, cIn, cEndian))
    /\ [][(cPhase = "new" /\ cPhase' = "decoded") =>
             (cIn' = cIn /\ cFn' = cFn /\ cEndian' = cEndian)]_vars

\* readUint16 of 0x11 0x22 on instances whose scratch buffers hold the bytes of
\* an earlier 64-bit decode
C30_Witness ==
    /\ cPhase = "decoded" /\ cFn = "readUint16" /\ cEndian = Big /\ cIn = <<17, 34>>
    /\ cScratch["DataView"] = <<17, 34, 252, 251, 250, 249, 248, 247>>
    /\ cScratch["Performance"] = <<254, 253, 252, 251, 250, 249, 248, 247>>
    /\ cOut["DataView"] = cOut["BitOps"]

----------------------------------------------------------------------------
\* The content of the window

\* the bytes of every chunk taken from the source so far
PulledSoFar == SubSeq(payload, 1, Len(payload) - SumLen(source))

\* C31: between awaited calls (lengths not negative), the unread part of the
\* window, from the cursor to its end, is the concatenation of all chunks pulled
\* so far without its first bytesRead bytes, i.e. the bytes of the stream from
\* position bytesRead on; failed reads, compaction and readUntilEof keep this
C31_WindowHoldsTheStream ==
    pc = "idle" =>
        /\ bytesRead <= Len(PulledSoFar)
        /\ SubSeq(buffer, bufferOffset + 1, Len(buffer))
              = SubSeq(PulledSoFar, bytesRead + 1, Len(PulledSoFar))

\* read(1) of a chunk 1 2, then a read(3) that pulled the chunk 3 and failed
C31_Witness ==
    /\ ReadCompleted /\ last.status = "EndOfStream" /\ last.n = 3
    /\ buffer = <<1, 2, 3>> /\ bufferOffset = 1 /\ bytesRead = 1
    /\ source = <<>>

----------------------------------------------------------------------------
\* Typed writes started without awaiting the ones before

\* the call of a wlog entry is suspended at its await
AwaitsSink(e) == e.ret = <<>> /\ e.err = "none"

\* writeUintW(value, endian) / writeIntW(value, endian) called while earlier calls
\* are suspended: the call runs up to the await in write, which is its first:
\* encode into this.buffer, slice, this.writer.write(slice)
BurstWriteTyped ==
    /\ Len(wlog) < MaxWrites
    /\ \E fn \in ReadFns : \E value \in WriterValues(fn) : \E endian \in EndianOf(fn) :
          LET wfn == WriteFnOf(fn)
              encoded == EncodeInto(wbuffer, wfn, value, writeEndian(endian))
              chunk == handOver(encoded, WriteWidth(wfn))
          IN  /\ wbuffer' = encoded
              /\ sink' = writeChunk(sinkSeenWith(encoded), chunk.bytes)
              /\ wviews' = IF chunk.view THEN wviews \cup {Len(sink) + 1} ELSE wviews
              /\ wlog' = Append(wlog, Logged(wfn, <<>>, <<>>, value, endian))
    /\ wpc' = "write"
    /\ wret' = <<>>
    /\ UNCHANGED <<rvars, cvars>>

\* the stream settles the oldest write it holds (a WritableStream takes its
\* chunks in the order of the write calls); that call resumes and returns
BurstReturn ==
    /\ \E i \in 1..Len(wlog) :
          /\ AwaitsSink(wlog[i])
          /\ \A j \in 1..(i - 1) : ~AwaitsSink(wlog[j])
          /\ wret' = <<byteLengthOf(wlog[i])>>
          /\ wlog' = [wlog EXCEPT ![i].ret = <<byteLengthOf(wlog[i])>>]
          /\ wpc' = IF i < Len(wlog) THEN "write" ELSE "idle"
    /\ UNCHANGED <<wbuffer, sink, wviews>>
    /\ UNCHANGED <<rvars, cvars>>

NextBurst ==
    \/ BurstWriteTyped
    \/ BurstReturn

SpecBurst == InitWriter /\ [][NextBurst]_vars

\* C32: when typed writes are started on one StreamWriter before earlier ones
\* have completed, the sink still holds one chunk per call, in the order of the
\* calls, each with the bytes of the value of its own call, and each call that
\* has completed returned the width of its own chunk
C32_UnawaitedWritesKeepOrder ==
    /\ Len(sink) = Len(wlog)
    /\ \A i \in 1..Len(wlog) :
          /\ i <= Len(sink) =>
                HoldsValue(sink[i], wlog[i].value, WriteWidth(wlog[i].fn), wlog[i].endian)
          /\ ~AwaitsSink(wlog[i]) => wlog[i].ret = <<WriteWidth(wlog[i].fn)>>

\* writeUint32(0x11121314) and then writeUint16(0xFFFF), both still suspended
C32_Witness ==
    /\ Len(wlog) = 2 /\ AwaitsSink(wlog[1]) /\ AwaitsSink(wlog[2])
    /\ wlog[1].fn = "writeUint32" /\ wlog[2].fn = "writeUint16"
    /\ sink = << <<17, 18, 19, 20>>, <<255, 255>> >>
    /\ SubSeq(wbuffer, 1, 4) = <<255, 255, 19, 20>>

----------------------------------------------------------------------------
\* A closed reader with buffered bytes

\* a read(n) made after close with at least n unread bytes in the window
ServedFromWindow(c) == c.fn = "read" /\ ~c.open /\ c.n <= Len(c.unread)

\* C33: close() does not discard the unread bytes of the window, and a read(n)
\* made after close() with n <= the number of unread bytes in the window succeeds
\* without touching the source, returns the first n of those bytes and advances
\* bytesRead by n
C33_ClosedReaderServesWindow ==
    /\ [][(locked /\ ~locked') =>
             SubSeq(buffer', bufferOffset' + 1, Len(buffer'))
               = SubSeq(buffer, bufferOffset + 1, Len(buffer))]_vars
    /\ []((pc # "idle" /\ ServedFromWindow(call)) =>
             (pc = "slice" /\ Flatten(source) = call.rest))
    /\ [][(pc # "idle" /\ ServedFromWindow(call) /\ pc' = "idle") =>
             /\ last'.status = "ok"
             /\ last'.bytes = SubSeq(call.unread, 1, call.n)
             /\ bytesRead' = call.before + call.n
             /\ source' = source
             /\ SubSeq(buffer', bufferOffset' + 1, Len(buffer'))
                   = SubSeq(call.unread, call.n + 1, Len(call.unread))]_vars

\* read(1) of a chunk 1 2 3, close(), then read(2) has returned 2 3 with the
\* chunk 4 still in the source
C33_Witness ==
    /\ ReadCompleted /\ ~locked /\ ~last.open
    /\ last.status = "ok" /\ last.n = 2 /\ last.bytes = <<2, 3>>
    /\ bytesRead = 3
    /\ source = << <<4>> >>

----------------------------------------------------------------------------
\* The routing of PerformanceValueReader

\* C34: PerformanceValueReader hands every 8-bit and 16-bit decode to its
\* BitOpsValueReader and every 32-bit and 64-bit decode to its
\* DataViewValueReader, with the buffer and the byte order it was given: it
\* returns what that reader returns for them, a 32/64-bit decode leaves the
\* buffer's bytes at the front of the scratch buffer of its DataViewValueReader,
\* and an 8/16-bit decode leaves that scratch buffer untouched
C34_PerformanceRouting ==
    [][(cPhase = "new" /\ cPhase' = "decoded") =>
          IF WidthOf(cFn) <= 2
          THEN /\ cOut'["Performance"] = BitOpsCall(cFn, cIn, cEndian)
               /\ cScratch'["Performance"] = cScratch["Performance"]
          ELSE /\ cOut'["Performance"]
                    = DataViewCall(cFn, cScratch["Performance"], cIn, cEndian)
               /\ SubSeq(cScratch'["Performance"], 1, WidthOf(cFn)) = cIn
               /\ \A i \in (WidthOf(cFn) + 1)..ScratchLen :
                     cScratch'["Performance"][i] = cScratch["Performance"][i]]_vars

\* readInt16 of 0xFE 0xFD, little-endian, after a 32-bit decode of 0x11 0x22 0x33
\* 0x44 on the same instances
C34_Witness ==
    /\ cPhase = "decoded" /\ cFn = "readInt16" /\ cEndian = Little /\ cIn = <<254, 253>>
    /\ cScratch["Performance"] = <<17, 34, 51, 68, 0, 0, 0, 0>>
    /\ cScratch["DataView"] = <<254, 253, 51, 68, 0, 0, 0, 0>>
    /\ cOut["Performance"] = cOut["DataView"]

====
